---- MODULE Spec2Model ----
(***************************************************************************)
(* Market-data acquisition layer of backend/app/routes/investing.py:       *)
(* the module-level snapshot cache and rate-limiter state, the two         *)
(* limiter functions check_rate_limit and handle_rate_limit, the fetch     *)
(* function get_stock_data and the get-stock route that wraps it.          *)
(*                                                                         *)
(* Time is the wall clock in whole seconds (time.time() and                *)
(* datetime.utcnow() read the same clock).  The upstream provider and the  *)
(* database session are the environment: each call draws their outcome     *)
(* from a small set.                                                       *)
(***************************************************************************)
EXTENDS Integers, Sequences, FiniteSets, TLC

\* ---- program constants -------------------------------------------------
CACHE_DURATION == 300
RATE_LIMIT_WINDOW == 60
MAX_REQUESTS_PER_WINDOW == 5
BACKOFF_PERIOD == 30

NEWS_CACHE_DURATION == 1800
MARKET_NEWS_CACHE_KEY == "market_news"
MarketNewsLimit == 20
WatchlistNewsLimit == 30
market_tickers == <<"^GSPC", "^DJI", "^IXIC">>

\* Thresholds of the recommendation rules; market capitalisation is counted
\* in millions of dollars.
HIGH_VOLUME == 10000000
LOW_VOLUME == 1000000
LARGE_CAP == 100000
SMALL_CAP == 10000
TopRecommendations == 5
stocks_to_analyze ==
    << "AAPL", "MSFT", "GOOGL", "AMZN", "META",
       "JPM", "BAC", "WFC", "GS", "MS",
       "JNJ", "PFE", "MRK", "UNH", "ABBV",
       "XOM", "CVX", "COP", "SLB", "EOG",
       "WMT", "TGT", "COST", "HD", "LOW" >>
default_symbols == <<"AAPL", "MSFT", "GOOGL", "AMZN", "META">>

\* ---- bounds of the model -----------------------------------------------
MaxTime == 61
TickSteps == {30, 31}
AdmittedKept == MAX_REQUESTS_PER_WINDOW + 1
\* Requests that may be inside check_rate_limit at the same time.
MaxRequests == 2
\* The window invariant is followed on a clock whose steps let a call fall
\* inside a backoff more than a window after the oldest admission.
MaxWindowTime == 61
WindowTickSteps == {21, 40}
\* Days the history frames reach over; the request is made on one of the
\* last two.
MaxDay == 5
\* The provider's quotes differ from one common quote on up to VariedLen
\* consecutive symbols of the recommender's list.
VariedLen == 2
\* The news handlers are exercised on a coarser clock.
MaxNewsTime == 1800
NewsTickSteps == {900}
\* Number of items of a long news payload.
LongFeed == 31

\* ---- value domains -----------------------------------------------------
\* Optional[float] = None is modelled by a time no clock reading equals.
NoTime == -1
\* AAPL has a row in the stocks table (seeded by init_db), JPM has none.
Symbols == {"AAPL", "JPM"}
SeededStocks == {"AAPL"}
SeedPrice == 150
\* timedelta(hours=24), in seconds: how long a stored analysis is served.
ANALYSIS_MAX_AGE == 86400
\* Values of float(info.get('currentPrice', 0)); 0 is what a payload without
\* the key yields.
InfoPrices == {0, 150, 151}
\* Outcome of reading ticker.info / of the ticker.history block.
InfoOutcomes == {"ok", "throttled", "unknown"}
HistOutcomes == {"ok", "throttled"}
\* Outcome of db.commit().
DbOutcomes == {"ok", "fail"}
\* Symbols whose news is requested, and the watchlists a request may find
\* (symbols in the order the stocks query returns them).
NewsSymbols == {"AAPL", "MSFT"}
Watchlists == {<< >>, <<"AAPL", "MSFT">>}
\* Watchlists over symbols the provider knows, one of which holds a hyphen,
\* in the order the stocks query may return them; and the symbols of the
\* model in the order Python compares strings.
\* Watchlists of the users who ask for GET /watchlist.
StockWatchlists == {<< >>, <<"AAPL">>, <<"AAPL", "JPM">>}
KeyWatchlists == {<<"AAPL", "MSFT">>, <<"MSFT", "AAPL">>, <<"BTC", "USD">>, <<"BTC-USD">>}
SymbolOrder == <<"AAPL", "BTC", "BTC-USD", "MSFT", "USD">>
\* Order types and the quantities a request may carry (OrderCreate admits
\* quantities above zero only).
OrderTypes == {"BUY", "SELL"}
Quantities == {1, 2}
\* Number of orders the table is followed for.
MaxOrders == 2
\* Outcome of reading ticker.news.
NewsOutcomes == {"fail", "short", "long", "content", "undated"}
\* ... and those the three news handlers are run on together.
TtlOutcomes == {"fail", "short", "undated"}
\* Number of points a successful history fetch contributes.
HistPoints == 2

NoSnap == [symbol |-> "", current_price |-> 0, historical_data |-> 0, last_updated |-> NoTime]
NoRow == [current_price |-> 0, last_updated |-> NoTime]
\* No symbol has a row in the stock_analyses table.
NoAnalyses == [s \in Symbols |-> NoTime]

VARIABLES
    now,                 \* wall clock, seconds
    stock_cache,         \* symbol -> [snap, time]; DOMAIN = cached symbols
    last_request_times,  \* sequence of admitted request times
    rate_limited_until,  \* backoff expiry or NoTime
    stocks,              \* stocks table: symbol -> row or NoRow
    last,                \* record of the most recent call and its outcome
    admitted,            \* history: times of the latest calls check_rate_limit admitted
    news_cache,          \* cache key -> [news, time]; DOMAIN = keys stored
    provider,            \* environment: the quote the provider holds per symbol
    requests,            \* request -> [pc, current_time]: position inside check_rate_limit
    orders,              \* orders table: the committed rows, oldest first
    holdings,            \* holdings table of the user: symbol -> row or NoHolding
    stock_analyses       \* stock_analyses table: symbol -> created_at of the latest row

vars == <<now, stock_cache, last_request_times, rate_limited_until, stocks, last, admitted,
          news_cache, provider, requests, orders, holdings, stock_analyses>>

\* The record of a call; fields a call does not use keep these values.
NoCall ==
    [op |-> "none", symbol |-> "", ret |-> FALSE, reset |-> FALSE,
     status |-> 0, cause |-> "", snap |-> NoSnap, upstream |-> 0,
     info |-> "n/a", upsert |-> "n/a", throttled |-> FALSE, retry_after |-> 0,
     key |-> "", hit |-> FALSE, news |-> << >>, collected |-> << >>,
     analysis |-> << >>, fetched |-> << >>, scored |-> << >>, recs |-> << >>,
     defaulted |-> FALSE, history |-> << >>, flip |-> FALSE,
     symbols |-> << >>, failed |-> 0, total |-> 0, items |-> << >>]

Call(op, symbol) ==
    [NoCall EXCEPT !.op = op, !.symbol = symbol]

\* ---- check_rate_limit --------------------------------------------------
RECURSIVE PurgeOld(_, _)
PurgeOld(times, t) ==
    IF times # << >> /\ t - Head(times) > RATE_LIMIT_WINDOW
    THEN PurgeOld(Tail(times), t)
    ELSE times

ResetHistory_decay(times) == times
ResetHistory(times) == << >>

KeepLatest(s) ==
    IF Len(s) > AdmittedKept THEN SubSeq(s, Len(s) - AdmittedKept + 1, Len(s)) ELSE s

\* rate_limited_until is not None and current_time < rate_limited_until
StillInBackoff_never(until, t) == FALSE

StillInBackoff(until, t) == until # NoTime /\ t < until

\* len(last_request_times) >= MAX_REQUESTS_PER_WINDOW
WindowFull_strict(times) == Len(times) > MAX_REQUESTS_PER_WINDOW

WindowFull(times) == Len(times) >= MAX_REQUESTS_PER_WINDOW

CheckRateLimit ==
    LET current_time == now
        in_backoff == StillInBackoff(rate_limited_until, current_time)
        expired == rate_limited_until # NoTime /\ current_time >= rate_limited_until
        until0 == IF expired THEN NoTime ELSE rate_limited_until
        times0 == IF expired THEN ResetHistory(last_request_times) ELSE last_request_times
        purged == PurgeOld(times0, current_time)
        \* flip tells a call from the one before it when both end the same way
        call == [Call("check_rate_limit", "") EXCEPT !.flip = ~last.flip]
    IN  /\ IF in_backoff
           THEN /\ UNCHANGED <<last_request_times, rate_limited_until, admitted,
                       orders, holdings, stock_analyses>>
                /\ last' = [call EXCEPT !.ret = FALSE]
           ELSE IF WindowFull(purged)
           THEN /\ rate_limited_until' = current_time + BACKOFF_PERIOD
                /\ last_request_times' = purged
                /\ last' = [call EXCEPT !.ret = FALSE, !.reset = expired]
                /\ UNCHANGED admitted
           ELSE /\ last_request_times' = Append(purged, current_time)
                /\ rate_limited_until' = until0
                /\ last' = [call EXCEPT !.ret = TRUE, !.reset = expired]
                /\ admitted' = KeepLatest(Append(admitted, current_time))
        /\ UNCHANGED <<now, stock_cache, stocks, news_cache, provider, requests,
                       orders, holdings, stock_analyses>>

\* ---- check_rate_limit, statement by statement -------------------------
\* The function holds no lock: a request running it on another thread may
\* be scheduled between any two reads or writes of the module globals
\* last_request_times and rate_limited_until.  Each step below makes one
\* such read or write; a request that raises leaves the function with the
\* exception named in last.cause.
Requests == 1..MaxRequests

Idle == [pc |-> "idle", current_time |-> NoTime]

At(r, pc) == requests[r].pc = pc

Goto(r, pc) == [requests EXCEPT ![r].pc = pc]

Return(r) == [requests EXCEPT ![r] = Idle]

Returned(ret) == [Call("check_rate_limit", "") EXCEPT !.ret = ret]

Raise(exception) == [Call("check_rate_limit", "") EXCEPT !.cause = exception]

\* line 48: current_time = time.time()
ReqEnter(r) ==
    /\ At(r, "idle")
    /\ requests' = [requests EXCEPT ![r] = [pc |-> "backoff", current_time |-> now]]
    /\ UNCHANGED <<now, stock_cache, last_request_times, rate_limited_until, last,
                   admitted, stocks, news_cache, provider, orders, holdings, stock_analyses>>

\* line 51: if rate_limited_until is not None:
ReqBackoff(r) ==
    /\ At(r, "backoff")
    /\ requests' = Goto(r, IF rate_limited_until # NoTime THEN "compare" ELSE "purge")
    /\ UNCHANGED <<now, stock_cache, last_request_times, rate_limited_until, last,
                   admitted, stocks, news_cache, provider, orders, holdings, stock_analyses>>

\* line 52: if current_time < rate_limited_until:  (a float against None
\* is a TypeError)
ReqCompare(r) ==
    /\ At(r, "compare")
    /\ IF rate_limited_until = NoTime
       THEN /\ requests' = Return(r)
            /\ last' = Raise("TypeError")
       ELSE /\ requests' = Goto(r, IF StillInBackoff(rate_limited_until,
                                                     requests[r].current_time)
                                   THEN "remaining" ELSE "reset_until")
            /\ UNCHANGED last
    /\ UNCHANGED <<now, stock_cache, last_request_times, rate_limited_until, admitted,
                   stocks, news_cache, provider, orders, holdings, stock_analyses>>

\* lines 53-55: remaining = int(rate_limited_until - current_time); return False
ReqRemaining(r) ==
    /\ At(r, "remaining")
    /\ requests' = Return(r)
    /\ last' = IF rate_limited_until = NoTime THEN Raise("TypeError") ELSE Returned(FALSE)
    /\ UNCHANGED <<now, stock_cache, last_request_times, rate_limited_until, admitted,
                   stocks, news_cache, provider, orders, holdings, stock_analyses>>

\* line 58: rate_limited_until = None
ReqResetUntil(r) ==
    /\ At(r, "reset_until")
    /\ requests' = Goto(r, "reset_times")
    /\ rate_limited_until' = NoTime
    /\ UNCHANGED <<now, stock_cache, last_request_times, last, admitted, stocks,
                   news_cache, provider, orders, holdings, stock_analyses>>

\* line 59: last_request_times = []
ReqResetTimes(r) ==
    /\ At(r, "reset_times")
    /\ requests' = Goto(r, "purge")
    /\ last_request_times' = ResetHistory(last_request_times)
    /\ UNCHANGED <<now, stock_cache, rate_limited_until, last, admitted, stocks,
                   news_cache, provider, orders, holdings, stock_analyses>>

\* line 62, first operand: while last_request_times and ...
ReqPurge(r) ==
    /\ At(r, "purge")
    /\ requests' = Goto(r, IF last_request_times # << >> THEN "head" ELSE "decide")
    /\ UNCHANGED <<now, stock_cache, last_request_times, rate_limited_until, last,
                   admitted, stocks, news_cache, provider, orders, holdings, stock_analyses>>

\* line 62, second operand: current_time - last_request_times[0] > RATE_LIMIT_WINDOW
\* (the head of an empty list is an IndexError)
ReqHead(r) ==
    /\ At(r, "head")
    /\ IF last_request_times = << >>
       THEN /\ requests' = Return(r)
            /\ last' = Raise("IndexError")
       ELSE /\ requests' = Goto(r, IF requests[r].current_time - Head(last_request_times)
                                          > RATE_LIMIT_WINDOW
                                   THEN "pop" ELSE "decide")
            /\ UNCHANGED last
    /\ UNCHANGED <<now, stock_cache, last_request_times, rate_limited_until, admitted,
                   stocks, news_cache, provider, orders, holdings, stock_analyses>>

\* line 63: last_request_times.pop(0)  (IndexError on an empty list)
ReqPop(r) ==
    /\ At(r, "pop")
    /\ IF last_request_times = << >>
       THEN /\ requests' = Return(r)
            /\ last' = Raise("IndexError")
            /\ UNCHANGED last_request_times
       ELSE /\ requests' = Goto(r, "purge")
            /\ last_request_times' = Tail(last_request_times)
            /\ UNCHANGED last
    /\ UNCHANGED <<now, stock_cache, rate_limited_until, admitted, stocks, news_cache,
                   provider, orders, holdings, stock_analyses>>

\* line 65: if len(last_request_times) >= MAX_REQUESTS_PER_WINDOW:
ReqDecide(r) ==
    /\ At(r, "decide")
    /\ requests' = Goto(r, IF WindowFull(last_request_times) THEN "start_backoff"
                                                             ELSE "append")
    /\ UNCHANGED <<now, stock_cache, last_request_times, rate_limited_until, last,
                   admitted, stocks, news_cache, provider, orders, holdings, stock_analyses>>

\* lines 66-68: rate_limited_until = current_time + BACKOFF_PERIOD; return False
ReqStartBackoff(r) ==
    /\ At(r, "start_backoff")
    /\ requests' = Return(r)
    /\ rate_limited_until' = requests[r].current_time + BACKOFF_PERIOD
    /\ last' = Returned(FALSE)
    /\ UNCHANGED <<now, stock_cache, last_request_times, admitted, stocks, news_cache,
                   provider, orders, holdings, stock_analyses>>

\* lines 70-71: last_request_times.append(current_time); return True
ReqAppend(r) ==
    /\ At(r, "append")
    /\ requests' = Return(r)
    /\ last_request_times' = Append(last_request_times, requests[r].current_time)
    /\ last' = Returned(TRUE)
    /\ admitted' = KeepLatest(Append(admitted, requests[r].current_time))
    /\ UNCHANGED <<now, stock_cache, rate_limited_until, stocks, news_cache, provider,
                   orders, holdings, stock_analyses>>

\* ---- handle_rate_limit -------------------------------------------------
HandleRateLimit ==
    \E symbol \in Symbols :
        LET current_time == now
            until1 == IF rate_limited_until = NoTime
                      THEN current_time + BACKOFF_PERIOD
                      ELSE rate_limited_until
            call == Call("handle_rate_limit", symbol)
        IN  /\ rate_limited_until' = until1
            /\ IF symbol \in DOMAIN stock_cache
               THEN last' = [call EXCEPT !.status = 200, !.snap = stock_cache[symbol].snap]
               ELSE last' = [call EXCEPT !.status = 429, !.cause = "rate_limit",
                                         !.retry_after = until1 - current_time]
            /\ UNCHANGED <<now, stock_cache, last_request_times, stocks, admitted, news_cache,
                           provider, requests,
                       orders, holdings, stock_analyses>>

\* ---- get_stock_data ----------------------------------------------------
\* The result of one run of get_stock_data: the response, the stocks table
\* afterwards and the number of reads of the provider's quote (ticker.info).
\* in.info, in.hist: outcome of ticker.info and of the ticker.history block;
\* in.price: info['currentPrice']; in.db: outcome of db.commit(); in.points:
\* number of points the history frames hold.
get_stock_data(symbol, in) ==
    LET current_time == now
        has_row == stocks[symbol] # NoRow
        stock_data == [symbol |-> symbol,
                       current_price |-> in.price,
                       historical_data |-> IF in.hist = "ok" THEN in.points ELSE 0,
                       last_updated |-> current_time]
        \* Stock(**stock_data) rejects the keys that are not columns of the
        \* stocks table, so the insert branch raises before db.add.
        upsert == IF has_row THEN in.db ELSE "fail"
    IN  IF in.info # "ok"
        THEN \* HTTPException(404) raised at line 112 is caught at line 275
             [status |-> 500, cause |-> "info_404", snap |-> NoSnap,
              stocks |-> stocks, upstream |-> 1, info |-> in.info, upsert |-> "n/a",
              throttled |-> (in.info = "throttled")]
        ELSE IF upsert = "fail"
        THEN \* db.rollback(); HTTPException(500) at line 269, wrapped at line 277
             [status |-> 500, cause |-> "db_500", snap |-> NoSnap,
              stocks |-> stocks, upstream |-> 1, info |-> in.info, upsert |-> "fail",
              throttled |-> (in.hist = "throttled")]
        ELSE [status |-> 200, cause |-> "", snap |-> stock_data,
              stocks |-> [stocks EXCEPT ![symbol] =
                             [current_price |-> in.price, last_updated |-> current_time]],
              upstream |-> 1, info |-> in.info, upsert |-> "ok",
              throttled |-> (in.hist = "throttled")]

Respond(call, r) ==
    [call EXCEPT !.status = r.status, !.cause = r.cause, !.snap = r.snap,
                 !.upstream = r.upstream, !.info = r.info, !.upsert = r.upsert,
                 !.throttled = r.throttled]

\* What the provider and the database do during one call.  When ticker.info
\* raises, nothing after it runs.
FetchInputs ==
    [info : {"ok"}, price : InfoPrices, hist : HistOutcomes, db : DbOutcomes,
     points : {HistPoints}]
    \cup [info : InfoOutcomes \ {"ok"}, price : {0}, hist : {"n/a"}, db : {"n/a"},
          points : {0}]

\* GET /stocks/{symbol}
GetStock ==
    \E symbol \in Symbols, user_found \in BOOLEAN, in \in FetchInputs :
        LET r == get_stock_data(symbol, in)
            call == Call("get_stock", symbol)
        IN  /\ IF ~user_found
               THEN /\ last' = [call EXCEPT !.status = 404, !.cause = "user"]
                    /\ UNCHANGED stocks
               ELSE /\ last' = Respond(call, r)
                    /\ stocks' = r.stocks
            /\ UNCHANGED <<now, stock_cache, last_request_times, rate_limited_until, admitted,
                           news_cache, provider, requests,
                       orders, holdings, stock_analyses>>

\* GET /stocks/search: a query that matches a row of the stocks table is
\* answered from the table; otherwise the provider is asked and, when it
\* knows the symbol, a row is inserted with the price it quotes.  Any
\* exception of the provider or of the commit is answered with an empty list.
SearchStocks ==
    \E q \in Symbols, in \in FetchInputs :
        LET current_time == now
            call == Call("search_stocks", q)
            matched == stocks[q] # NoRow
            inserted == ~matched /\ in.info = "ok" /\ in.db = "ok"
        IN  /\ last' = [call EXCEPT !.status = 200,
                                    !.hit = matched,
                                    !.ret = matched \/ inserted,
                                    !.upstream = IF matched THEN 0 ELSE 1,
                                    !.info = IF matched THEN "n/a" ELSE in.info,
                                    !.upsert = IF matched \/ in.info # "ok" THEN "n/a"
                                               ELSE in.db]
            /\ stocks' = IF inserted
                         THEN [stocks EXCEPT ![q] = [current_price |-> in.price,
                                                     last_updated |-> current_time]]
                         ELSE stocks
            /\ UNCHANGED <<now, stock_cache, last_request_times, rate_limited_until, admitted,
                           news_cache, provider, requests, orders, holdings, stock_analyses>>

\* ---- GET /ai/stock/{symbol} ----------------------------------------------
\* get_stock_analysis of routes/stock_ai.py.  Without force_refresh the
\* latest stored analysis of a symbol that has a row is returned when it is
\* younger than ANALYSIS_MAX_AGE.  Otherwise a symbol without a row is looked
\* up at the provider and a row is inserted with info['regularMarketPrice']
\* (0 without the key) and the default last_updated; an exception of
\* ticker.info or of the commit raises HTTPException(404), which the outer
\* handler of line 126 turns into 500.  Then ticker.info and a year of
\* history are read (an exception: 500) and the analysis is made; it is
\* stored, with created_at = utcnow(), unless the model reported an error (an
\* empty history is one) or the commit failed, and the request answers 200
\* either way.
\* ins: first, outcome of ticker.info at line 60; market_price,
\* info['regularMarketPrice']; insert, outcome of db.commit() at line 74.
\* in: info and hist, outcomes of lines 89 and 94; model, of
\* model.analyze_stock; save, of db.commit() in _save_stock_analysis.
GetStockAnalysis ==
    \E symbol \in Symbols, force_refresh \in BOOLEAN :
        LET current_time == now
            call == Call("get_stock_analysis", symbol)
            has_row == stocks[symbol] # NoRow
            \* get_latest_stock_analysis: None without a row of the stock
            latest == IF has_row THEN stock_analyses[symbol] ELSE NoTime
            recent == /\ ~force_refresh
                      /\ latest # NoTime
                      /\ latest > current_time - ANALYSIS_MAX_AGE
            NotRun == "n/a"
            InsertInputs ==
                IF recent \/ has_row
                THEN {[first |-> NotRun, market_price |-> 0, insert |-> NotRun]}
                ELSE [first : {"ok"}, market_price : InfoPrices, insert : DbOutcomes]
                     \cup [first : InfoOutcomes \ {"ok"}, market_price : {0},
                           insert : {NotRun}]
            AnalysisInputs(ins) ==
                IF recent \/ (~has_row /\ (ins.first # "ok" \/ ins.insert # "ok"))
                THEN {[info |-> NotRun, hist |-> NotRun, model |-> NotRun, save |-> NotRun]}
                ELSE [info : InfoOutcomes \ {"ok"}, hist : {NotRun}, model : {NotRun},
                      save : {NotRun}]
                     \cup [info : {"ok"}, hist : {"throttled"}, model : {NotRun},
                           save : {NotRun}]
                     \cup [info : {"ok"}, hist : {"empty"}, model : {"error"},
                           save : {NotRun}]
                     \cup [info : {"ok"}, hist : {"ok"}, model : {"error"}, save : {NotRun}]
                     \cup [info : {"ok"}, hist : {"ok"}, model : {"ok"}, save : DbOutcomes]
        IN  \E ins \in InsertInputs : \E in \in AnalysisInputs(ins) :
                LET inserted == ins.insert = "ok"
                    rows == IF inserted
                            THEN [stocks EXCEPT ![symbol] =
                                     [current_price |-> ins.market_price,
                                      last_updated |-> current_time]]
                            ELSE stocks
                    looked_up == IF ins.first = NotRun THEN 0 ELSE 1
                IN  /\ IF recent
                       THEN /\ last' = [call EXCEPT !.status = 200, !.hit = TRUE,
                                                    !.ret = TRUE]
                            /\ UNCHANGED <<stocks, stock_analyses>>
                       ELSE IF ~has_row /\ ~inserted
                       THEN /\ last' = [call EXCEPT !.status = 500, !.cause = "stock_404",
                                                    !.upstream = 1, !.info = ins.first,
                                                    !.upsert = ins.insert]
                            /\ UNCHANGED <<stocks, stock_analyses>>
                       ELSE IF in.info # "ok" \/ in.hist = "throttled"
                       THEN /\ last' = [call EXCEPT !.status = 500,
                                                    !.cause = "analysis_500",
                                                    !.upstream = looked_up + 1,
                                                    !.info = in.info,
                                                    !.upsert = ins.insert]
                            /\ stocks' = rows
                            /\ UNCHANGED stock_analyses
                       ELSE /\ last' = [call EXCEPT !.status = 200,
                                                    !.ret = (in.model = "ok"),
                                                    !.upstream = looked_up + 1,
                                                    !.info = in.info,
                                                    !.upsert = IF in.save = NotRun
                                                               THEN ins.insert ELSE in.save]
                            /\ stocks' = rows
                            /\ stock_analyses' =
                                   IF in.save = "ok"
                                   THEN [stock_analyses EXCEPT ![symbol] = current_time]
                                   ELSE stock_analyses
                    /\ UNCHANGED <<now, stock_cache, last_request_times, rate_limited_until,
                                   admitted, news_cache, provider, requests, orders, holdings>>

\* ---- POST /orders -------------------------------------------------------
\* average_price is a quotient of floats; it is kept as the reduced fraction
\* <<numerator, denominator>>.
RECURSIVE GCD(_, _)
GCD(a, b) == IF b = 0 THEN a ELSE GCD(b, a % b)

Ratio(n, d) == IF n = 0 THEN <<0, 1>> ELSE <<n \div GCD(n, d), d \div GCD(n, d)>>

NoHolding == [shares |-> 0, average_price |-> <<0, 1>>]

NoHoldings == [s \in Symbols |-> NoHolding]

\* The try block of lines 603-641 for a BUY: the holding after the order.
BuyInto(holding, quantity, price, total_amount) ==
    IF holding # NoHolding
    THEN LET total_shares == holding.shares + quantity
             avg == holding.average_price
             \* total_cost = holding.shares * average_price + total_amount
             cost_num == holding.shares * avg[1] + total_amount * avg[2]
         IN  [shares |-> total_shares,
              average_price |-> Ratio(cost_num, avg[2] * total_shares)]
    ELSE [shares |-> quantity, average_price |-> Ratio(price, 1)]

\* ... and for a SELL: a holding left with no shares is deleted.
SellFrom(holding, quantity) ==
    IF holding.shares - quantity = 0 THEN NoHolding
    ELSE [holding EXCEPT !.shares = holding.shares - quantity]

\* The response model (schemas Order) admits a price above zero only.
ResponseValid(order) == order.price > 0

CreateOrder ==
    \E symbol \in Symbols, user_found \in BOOLEAN, type \in OrderTypes,
       quantity \in Quantities, in \in FetchInputs,
       commit_order \in DbOutcomes, commit_processed \in DbOutcomes :
        LET call == Call("create_order", symbol)
            r == get_stock_data(symbol, in)
            price == r.snap.current_price
            total_amount == quantity * price
            holding == holdings[symbol]
            db_order == [symbol |-> symbol, type |-> type, quantity |-> quantity,
                         price |-> price, total_amount |-> total_amount,
                         status |-> "PENDING"]
            completed == [db_order EXCEPT !.status = "COMPLETED"]
            processed == IF type = "BUY"
                         THEN BuyInto(holding, quantity, price, total_amount)
                         ELSE SellFrom(holding, quantity)
        IN  /\ Len(orders) < MaxOrders
            /\ IF ~user_found
               THEN /\ last' = [call EXCEPT !.status = 404, !.cause = "user"]
                    /\ UNCHANGED <<stocks, orders, holdings>>
               ELSE IF stocks[symbol] = NoRow
               THEN /\ last' = [call EXCEPT !.status = 404, !.cause = "stock"]
                    /\ UNCHANGED <<stocks, orders, holdings>>
               ELSE IF r.status # 200
               THEN \* the HTTPException of get_stock_data passes through
                    /\ last' = Respond(call, r)
                    /\ stocks' = r.stocks
                    /\ UNCHANGED <<orders, holdings>>
               ELSE IF type = "SELL" /\ (holding = NoHolding \/ holding.shares < quantity)
               THEN /\ last' = [Respond(call, r) EXCEPT !.status = 400, !.cause = "shares",
                                                        !.snap = NoSnap]
                    /\ stocks' = r.stocks
                    /\ UNCHANGED <<orders, holdings>>
               ELSE IF commit_order = "fail"
               THEN \* db.commit() of line 599 raises outside any try block
                    /\ last' = [Respond(call, r) EXCEPT !.status = 500, !.cause = "commit",
                                                        !.snap = NoSnap]
                    /\ stocks' = r.stocks
                    /\ UNCHANGED <<orders, holdings>>
               ELSE IF commit_processed = "fail"
               THEN \* db.rollback() at line 645 undoes what line 599 had not
                    \* committed: the holding and the status of the order
                    /\ last' = [Respond(call, r) EXCEPT !.status = 500, !.cause = "process",
                                                        !.snap = NoSnap]
                    /\ stocks' = r.stocks
                    /\ orders' = Append(orders, db_order)
                    /\ UNCHANGED holdings
               ELSE /\ last' = [Respond(call, r) EXCEPT
                                    !.status = IF ResponseValid(completed) THEN 200 ELSE 500,
                                    !.cause = IF ResponseValid(completed) THEN "" ELSE "response",
                                    !.snap = NoSnap]
                    /\ stocks' = r.stocks
                    /\ orders' = Append(orders, completed)
                    /\ holdings' = [holdings EXCEPT ![symbol] = processed]
            /\ UNCHANGED <<now, stock_cache, last_request_times, rate_limited_until, admitted,
                           news_cache, provider, requests, stock_analyses>>

\* ---- news: shared helpers --------------------------------------------
\* A raw payload item is [title, publisher, published_date, shape]: shape is
\* "content" for the nested structure and "flat" for the old one,
\* published_date is NoTime when the item carries none of the date keys, and
\* an item whose title, publisher or link is missing has an empty title.
\* A NewsItem is [title, publisher, published_date, aware]: aware tells a
\* date with a UTC offset (fromisoformat of pubDate or displayTime) from a
\* naive one (fromtimestamp, or the utcnow() of an item without a date).
Min(a, b) == IF a < b THEN a ELSE b

Take(s, n) == SubSeq(s, 1, Min(n, Len(s)))

\* A function over 1..n as an explicit tuple.
AsSeq(f) == f \o << >>

\* Payload -> NewsItem: items without the required fields are skipped.
ParseNews(feed, current_time) ==
    LET kept == SelectSeq(feed, LAMBDA item : item.title # "")
    IN  AsSeq([i \in 1..Len(kept) |->
                  [title |-> kept[i].title,
                   publisher |-> kept[i].publisher,
                   published_date |-> IF kept[i].published_date = NoTime
                                      THEN current_time
                                      ELSE kept[i].published_date,
                   aware |-> (kept[i].shape = "content"
                              /\ kept[i].published_date # NoTime)]])

Titles(items) == {items[i].title : i \in 1..Len(items)}

\* The subsequence of items at the positions in keep, in order.
Pick(items, keep) ==
    LET place == AsSeq([i \in 1..Len(items) |-> Cardinality({j \in keep : j <= i})])
    IN  AsSeq([n \in 1..Cardinality(keep) |->
                  items[CHOOSE i \in keep : place[i] = n]])

UniqueByTitle_lastwins(items) ==
    Pick(items, {i \in 1..Len(items) :
                    \A j \in (i + 1)..Len(items) : items[j].title # items[i].title})

\* unique_news = {}; "if item.title not in unique_news: unique_news[title] =
\* item": the first item of each title is kept, in insertion order.
UniqueByTitle(items) ==
    Pick(items, {i \in 1..Len(items) : \A j \in 1..(i - 1) : items[j].title # items[i].title})

\* sorted(..., key=published_date, reverse=True): stable, so items of equal
\* date keep their relative order.  rank[i] is the place item i ends at.
\* sorted() compares the dates pairwise, and Python refuses to compare a
\* date with an offset to a naive one (TypeError).
SortRaises(items) ==
    \E i, j \in 1..Len(items) : items[i].aware # items[j].aware

SortNewestFirst(items) ==
    LET rank == AsSeq([i \in 1..Len(items) |->
                    1 + Cardinality({j \in 1..Len(items) :
                        \/ items[j].published_date > items[i].published_date
                        \/ /\ items[j].published_date = items[i].published_date
                           /\ j < i})])
    IN  AsSeq([p \in 1..Len(items) |-> items[CHOOSE i \in 1..Len(items) : rank[i] = p]])

NewsFresh_quote_ttl(key) ==
    /\ key \in DOMAIN news_cache
    /\ now - news_cache[key].time < CACHE_DURATION

NewsFresh(key) ==
    /\ key \in DOMAIN news_cache
    /\ now - news_cache[key].time < NEWS_CACHE_DURATION

StoreNews(cache, key, items, t) ==
    [k \in DOMAIN cache \cup {key} |->
        IF k = key THEN [news |-> items, time |-> t] ELSE cache[k]]

\* What ticker.news yields for one ticker: an exception, a short payload or
\* a long one.  The short payload holds a headline every ticker carries, a
\* headline of its own twice (the older copy first) and one item without a
\* title; the long one holds LongFeed items with titles of their own.
TickerRank(k) ==
    CASE k = "^GSPC" -> 1 [] k = "^DJI" -> 2 [] k = "^IXIC" -> 3
      [] k = "AAPL" -> 4 [] k = "MSFT" -> 5 [] OTHER -> 6

ShortFeed(k) ==
    << [title |-> "Fed holds rates", publisher |-> k, published_date |-> 100 + TickerRank(k),
        shape |-> "flat"],
       [title |-> k \o " update", publisher |-> k, published_date |-> 150, shape |-> "flat"],
       [title |-> "", publisher |-> k, published_date |-> 300, shape |-> "flat"],
       [title |-> k \o " update", publisher |-> k, published_date |-> 200, shape |-> "flat"] >>

\* The short payload in the nested structure, every item with its pubDate.
ContentFeed(k) ==
    AsSeq([i \in 1..Len(ShortFeed(k)) |-> [ShortFeed(k)[i] EXCEPT !.shape = "content"]])

\* A payload in the nested structure whose second item has neither pubDate
\* nor displayTime.
UndatedFeed(k) ==
    << [title |-> k \o " update", publisher |-> k, published_date |-> 150,
        shape |-> "content"],
       [title |-> k \o " note", publisher |-> k, published_date |-> NoTime,
        shape |-> "content"] >>

LongFeedOf(k) ==
    AsSeq([i \in 1..LongFeed |->
              [title |-> k \o " #" \o ToString(i), publisher |-> k,
               published_date |-> 1000 + i, shape |-> "flat"]])

TickerNews(k, outcome) ==
    CASE outcome = "short" -> ShortFeed(k)
      [] outcome = "long" -> LongFeedOf(k)
      [] outcome = "content" -> ContentFeed(k)
      [] outcome = "undated" -> UndatedFeed(k)
      [] OTHER -> << >>

RECURSIVE Concat(_)
Concat(lists) ==
    IF lists = << >> THEN << >> ELSE Head(lists) \o Concat(Tail(lists))

\* ---- GET /news/market --------------------------------------------------
\* outcome: what ticker.news yields for each index ticker, if it is read.
get_market_news(outcome) ==
    LET current_time == now
        call == Call("get_market_news", "")
        news_items ==
            Concat([i \in 1..Len(market_tickers) |->
                       ParseNews(TickerNews(market_tickers[i], outcome[i]), current_time)])
        unique_news == UniqueByTitle(news_items)
        sorted_news == SortNewestFirst(unique_news)
        fetch == [call EXCEPT !.key = MARKET_NEWS_CACHE_KEY,
                              !.upstream = Len(market_tickers),
                              !.failed = Cardinality({i \in 1..Len(market_tickers) :
                                                         outcome[i] = "fail"}),
                              !.collected = news_items]
    IN  /\ IF NewsFresh(MARKET_NEWS_CACHE_KEY)
           THEN /\ last' = [call EXCEPT !.status = 200, !.key = MARKET_NEWS_CACHE_KEY,
                                        !.hit = TRUE,
                                        !.news = news_cache[MARKET_NEWS_CACHE_KEY].news]
                /\ UNCHANGED news_cache
           ELSE IF SortRaises(unique_news)
           THEN \* TypeError of sorted() at line 931, caught at line 941
                /\ last' = [fetch EXCEPT !.status = 500, !.cause = "sort"]
                /\ UNCHANGED news_cache
           ELSE /\ news_cache' = StoreNews(news_cache, MARKET_NEWS_CACHE_KEY,
                                           sorted_news, current_time)
                /\ last' = [fetch EXCEPT !.status = 200,
                                         !.news = Take(sorted_news, MarketNewsLimit)]
        /\ UNCHANGED <<now, stock_cache, last_request_times, rate_limited_until, stocks,
                       admitted, provider, requests, orders, holdings, stock_analyses>>

GetMarketNews ==
    \E outcome \in [1..Len(market_tickers) -> NewsOutcomes] :
        get_market_news(IF NewsFresh(MARKET_NEWS_CACHE_KEY)
                        THEN [i \in 1..Len(market_tickers) |-> "fail"] ELSE outcome)

\* ---- GET /news/stock/{symbol} ------------------------------------------
StockNewsKey(symbol) == "stock_news_" \o symbol

get_stock_news(symbol, outcome) ==
    LET current_time == now
        cache_key == StockNewsKey(symbol)
        call == [Call("get_stock_news", symbol) EXCEPT !.key = cache_key]
        news_items == ParseNews(TickerNews(symbol, outcome), current_time)
        sorted_news == SortNewestFirst(news_items)
    IN  /\ IF NewsFresh(cache_key)
           THEN /\ last' = [call EXCEPT !.status = 200, !.hit = TRUE,
                                        !.news = news_cache[cache_key].news]
                /\ UNCHANGED news_cache
           ELSE IF outcome = "fail"
           THEN \* ticker.news raises: caught at line 1256
                /\ last' = [call EXCEPT !.status = 500, !.cause = "news", !.upstream = 1]
                /\ UNCHANGED news_cache
           ELSE IF SortRaises(news_items)
           THEN \* TypeError of sorted() at line 1250, caught at line 1256
                /\ last' = [call EXCEPT !.status = 500, !.cause = "sort", !.upstream = 1]
                /\ UNCHANGED news_cache
           ELSE /\ news_cache' = StoreNews(news_cache, cache_key, sorted_news, current_time)
                /\ last' = [call EXCEPT !.status = 200, !.upstream = 1,
                                        !.news = sorted_news]
        /\ UNCHANGED <<now, stock_cache, last_request_times, rate_limited_until, stocks,
                       admitted, provider, requests, orders, holdings, stock_analyses>>

GetStockNews ==
    \E symbol \in NewsSymbols, outcome \in NewsOutcomes : get_stock_news(symbol, outcome)

\* ---- GET /news/watchlist -----------------------------------------------
\* sorted(symbols): the symbols are distinct (Stock.symbol is unique), so
\* the place of each is the number of symbols not after it.
SymbolRank(symbol) == CHOOSE i \in 1..Len(SymbolOrder) : SymbolOrder[i] = symbol

SortSymbols(symbols) ==
    LET place == AsSeq([i \in 1..Len(symbols) |->
                    Cardinality({j \in 1..Len(symbols) :
                        SymbolRank(symbols[j]) <= SymbolRank(symbols[i])})])
    IN  AsSeq([p \in 1..Len(symbols) |->
                  symbols[CHOOSE i \in 1..Len(symbols) : place[i] = p]])

\* '-'.join(...)
RECURSIVE JoinSymbols(_)
JoinSymbols(symbols) ==
    IF Len(symbols) = 0 THEN ""
    ELSE IF Len(symbols) = 1 THEN symbols[1]
    ELSE symbols[1] \o "-" \o JoinSymbols(Tail(symbols))

WatchlistNewsKey(symbols) == "watchlist_news_" \o JoinSymbols(SortSymbols(symbols))

\* A request of an unknown user, or of a user with the given watchlist and,
\* per watchlist symbol, what ticker.news yields if it is read.
WatchlistInputs ==
    {[user_found |-> FALSE, symbols |-> << >>, outcome |-> << >>]}
    \cup UNION {{[user_found |-> TRUE, symbols |-> w, outcome |-> o] :
                    o \in [1..Len(w) -> NewsOutcomes]} : w \in Watchlists}

get_watchlist_news(in) ==
        LET user_found == in.user_found
            symbols == in.symbols
            outcome == in.outcome
            current_time == now
            cache_key == WatchlistNewsKey(symbols)
            call == [Call("get_watchlist_news", "") EXCEPT !.symbols = symbols]
            idx == 1..Len(symbols)
            \* symbols whose own entry is not fresh are fetched
            fetched == {i \in idx : ~NewsFresh(StockNewsKey(symbols[i]))}
            stock_news(i) ==
                IF i \notin fetched THEN news_cache[StockNewsKey(symbols[i])].news
                ELSE ParseNews(TickerNews(symbols[i], outcome[i]), current_time)
            stored == {i \in fetched : outcome[i] # "fail"}
            news_items == Concat([i \in idx |-> stock_news(i)])
            unique_news == UniqueByTitle(news_items)
            sorted_news == SortNewestFirst(unique_news)
            per_stock ==
                [k \in DOMAIN news_cache \cup {StockNewsKey(symbols[i]) : i \in stored} |->
                    IF \E i \in stored : k = StockNewsKey(symbols[i])
                    THEN [news |-> stock_news(CHOOSE i \in stored : k = StockNewsKey(symbols[i])),
                          time |-> current_time]
                    ELSE news_cache[k]]
        IN  /\ IF ~user_found
               THEN \* HTTPException(404) at line 958 is caught at line 1124
                    /\ last' = [call EXCEPT !.status = 500, !.cause = "user"]
                    /\ UNCHANGED news_cache
               ELSE IF symbols = << >>
               THEN /\ last' = [call EXCEPT !.status = 200]
                    /\ UNCHANGED news_cache
               ELSE IF NewsFresh(cache_key)
               THEN /\ last' = [call EXCEPT !.status = 200, !.key = cache_key, !.hit = TRUE,
                                            !.news = news_cache[cache_key].news]
                    /\ UNCHANGED news_cache
               ELSE IF SortRaises(unique_news)
               THEN \* TypeError of sorted() at line 1114, caught at line 1124, after
                    \* line 1102 has stored the per-symbol entries
                    /\ news_cache' = per_stock
                    /\ last' = [call EXCEPT !.status = 500, !.cause = "sort",
                                            !.key = cache_key,
                                            !.upstream = Cardinality(fetched)]
               ELSE /\ news_cache' = StoreNews(per_stock, cache_key, sorted_news, current_time)
                    /\ last' = [call EXCEPT !.status = 200, !.key = cache_key,
                                            !.upstream = Cardinality(fetched),
                                            !.news = Take(sorted_news, WatchlistNewsLimit)]
            /\ UNCHANGED <<now, stock_cache, last_request_times, rate_limited_until, stocks,
                           admitted, provider, requests,
                       orders, holdings, stock_analyses>>

GetWatchlistNews == \E in \in WatchlistInputs : get_watchlist_news(in)

\* Requests of users whose watchlists are those of KeyWatchlists, the
\* provider answering every symbol with its short payload.
KeyInputs ==
    {[user_found |-> TRUE, symbols |-> w, outcome |-> [i \in 1..Len(w) |-> "short"]] :
        w \in KeyWatchlists}

GetWatchlistNewsOfUsers == \E in \in KeyInputs : get_watchlist_news(in)

\* The three news handlers against a provider whose ticker.news raises,
\* yields the short payload or yields the payload with an undated item.
GetMarketNewsOf(outcomes) ==
    \E outcome \in [1..Len(market_tickers) -> outcomes] : get_market_news(outcome)

GetStockNewsOf(outcomes) ==
    \E symbol \in NewsSymbols, outcome \in outcomes : get_stock_news(symbol, outcome)

GetWatchlistNewsOf(outcomes) ==
    \E in \in WatchlistInputs :
        /\ \A i \in 1..Len(in.outcome) : in.outcome[i] \in outcomes
        /\ get_watchlist_news(in)

TickNews ==
    \E d \in NewsTickSteps :
        /\ now + d <= MaxNewsTime
        /\ now' = now + d
        /\ UNCHANGED <<stock_cache, last_request_times, rate_limited_until, stocks, last, admitted,
                       news_cache, provider, requests,
                       orders, holdings, stock_analyses>>

\* ---- GET /stocks/recommendations ---------------------------------------
\* What the provider answers for one symbol of the universe: the inputs of
\* get_stock_data and, of the quote, regularMarketVolume, marketCap (in
\* millions), the price seven daily points ago and the lowest and highest
\* price of the last thirty daily points.
Quote(points, price, volume, market_cap, week_ago_price, low30, high30) ==
    [info |-> "ok", price |-> price, hist |-> "ok", db |-> "ok", points |-> points,
     volume |-> volume, market_cap |-> market_cap, week_ago_price |-> week_ago_price,
     low30 |-> low30, high30 |-> high30]

FailedQuote ==
    [info |-> "throttled", price |-> 0, hist |-> "n/a", db |-> "n/a", points |-> 0,
     volume |-> 0, market_cap |-> 0, week_ago_price |-> 0, low30 |-> 0, high30 |-> 0]

\* Thirty daily points: +6% in seven days, 15,000,000 shares, 200B, 5% range.
LongHistoryQuote == Quote(30, 318, 15000000, 200000, 300, 300, 315)

\* A failing fetch, a history long enough for the momentum block, and short
\* histories whose volume and cap give the scores 2, 1, 0, -1 and -2.
RecQuotes ==
    { FailedQuote,
      LongHistoryQuote,
      Quote(HistPoints, 150, 15000000, 200000, 150, 150, 150),
      Quote(HistPoints, 150, 5000000, 200000, 150, 150, 150),
      Quote(HistPoints, 150, 5000000, 50000, 150, 150, 150),
      Quote(HistPoints, 150, 500000, 50000, 150, 150, 150),
      Quote(HistPoints, 150, 500000, 5000, 150, 150, 150) }

\* The StockDetail get_stock_data returns for a quote.  historical_data is
\* the number of points and daily the number of them that are not intraday
\* (the quotes of the model hold daily points only); StockDetail turns every
\* point into a HistoricalDataPoint object, which point_type records.
Detail(snap, in) ==
    [symbol |-> snap.symbol, current_price |-> snap.current_price,
     historical_data |-> snap.historical_data, daily |-> snap.historical_data,
     point_type |-> "object", volume |-> in.volume,
     market_cap |-> in.market_cap, week_ago_price |-> in.week_ago_price,
     low30 |-> in.low30, high30 |-> in.high30]

\* What one rule adds, or that its block raised.
Rule(delta, reasons) == [raises |-> FALSE, delta |-> delta, reasons |-> reasons]

Raised == [raises |-> TRUE]

\* ---- price_change and its text ------------------------------------------
\* price_change = ((current_price - week_ago_price) / week_ago_price) * 100
\* is computed in binary floating point and f"{price_change:.1f}" prints the
\* float it got, so 103 against 80 prints 28.7 although the quotient is
\* 28.75.  A float is kept as its significand, a tuple of MantissaBits bits
\* with the highest first, and the power of two that scales it.
MantissaBits == 53

\* The number a tuple of bits stands for (at most 31 bits).
RECURSIVE BitsValue(_, _)
BitsValue(bits, acc) ==
    IF bits = << >> THEN acc ELSE BitsValue(Tail(bits), 2 * acc + Head(bits))

\* bits * m, for a small m: the bits are taken as digits of base Limb, the
\* lowest digit first, multiplied digit by digit with a carry, and turned
\* back into bits without leading zeros.
MulBits(bits, m) ==
    LET Limb == 2^13
        ToLimbs ==
            [j \in 1..((Len(bits) + 12) \div 13) |->
                BitsValue(SubSeq(bits, IF Len(bits) - 13 * j + 1 < 1 THEN 1
                                       ELSE Len(bits) - 13 * j + 1,
                                 Len(bits) - 13 * (j - 1)), 0)]
        RECURSIVE MulLimbs(_, _)
        MulLimbs(limbs, carry) ==
            IF limbs = << >> THEN (IF carry = 0 THEN << >> ELSE <<carry>>)
            ELSE <<(Head(limbs) * m + carry) % Limb>>
                     \o MulLimbs(Tail(limbs), (Head(limbs) * m + carry) \div Limb)
        ToBits(limbs) ==
            LET all == [i \in 1..(13 * Len(limbs)) |->
                           (limbs[Len(limbs) - ((i - 1) \div 13)]
                                \div 2^(12 - ((i - 1) % 13))) % 2]
                ones == {i \in 1..Len(all) : all[i] = 1}
            IN  IF ones = {} THEN << >>
                ELSE SubSeq(all, CHOOSE i \in ones : \A k \in ones : i <= k, Len(all))
    IN  ToBits(MulLimbs(ToLimbs, 0))

\* bits + 1; one bit longer when every bit was set.
Inc(bits) ==
    IF \A i \in 1..Len(bits) : bits[i] = 1 THEN <<1>> \o [i \in 1..Len(bits) |-> 0]
    ELSE [i \in 1..Len(bits) |->
             IF \E j \in (i + 1)..Len(bits) : bits[j] = 0 THEN bits[i]
             ELSE IF bits[i] = 0 THEN 1 ELSE 0]

\* Round to nearest, ties to even: rest are the bits dropped after kept.
RoundsUp(rest, kept) ==
    /\ rest # << >>
    /\ rest[1] = 1
    /\ \/ \E i \in 2..Len(rest) : rest[i] = 1
       \/ kept = 1

Renorm(bits, exp) ==
    IF Len(bits) > MantissaBits
    THEN [bits |-> SubSeq(bits, 1, MantissaBits), exp |-> exp + 1]
    ELSE [bits |-> bits, exp |-> exp]

\* The float nearest to bits * 2^exp.
RoundBits(bits, exp) ==
    IF Len(bits) <= MantissaBits
    THEN [bits |-> bits \o [i \in 1..(MantissaBits - Len(bits)) |-> 0],
          exp |-> exp - (MantissaBits - Len(bits))]
    ELSE IF RoundsUp(SubSeq(bits, MantissaBits + 1, Len(bits)), bits[MantissaBits])
    THEN Renorm(Inc(SubSeq(bits, 1, MantissaBits)), exp + Len(bits) - MantissaBits)
    ELSE [bits |-> SubSeq(bits, 1, MantissaBits), exp |-> exp + Len(bits) - MantissaBits]

\* n / w as a float (n > 0, w > 0): the quotient is scaled by a power of
\* two into [1, 2), divided out four bits at a time to MantissaBits bits,
\* and rounded on the remainder.
FloatDiv(n, w) ==
    LET RECURSIVE Normalise(_, _, _)
        Normalise(num, den, e) ==
            IF num >= 2 * den THEN Normalise(num, 2 * den, e + 1)
            ELSE IF num < den THEN Normalise(2 * num, den, e - 1)
            ELSE <<num, den, e>>
        RECURSIVE DivBits(_, _, _, _)
        DivBits(bits, r, den, k) ==
            IF k = 0 THEN <<bits, r>>
            ELSE DivBits(bits \o << (((16 * r) \div den) \div 8) % 2,
                                    (((16 * r) \div den) \div 4) % 2,
                                    (((16 * r) \div den) \div 2) % 2,
                                    ((16 * r) \div den) % 2 >>,
                         (16 * r) % den, den, k - 1)
        Round(q, r, den, exp) ==
            IF 2 * r > den \/ (2 * r = den /\ q[MantissaBits] = 1)
            THEN Renorm(Inc(q), exp)
            ELSE [bits |-> q, exp |-> exp]
        Quotient(qr, den, exp) == Round(qr[1], qr[2], den, exp)
        Divide(nm) ==
            Quotient(DivBits(<<1>>, nm[1] - nm[2], nm[2], (MantissaBits - 1) \div 4),
                     nm[2], nm[3] - (MantissaBits - 1))
    IN  Divide(Normalise(n, w, 0))

\* f * m as a float, for a small integer m.
FloatTimes(f, m) == RoundBits(MulBits(f.bits, m), f.exp)

\* The tenths ".1f" prints for a float below 2^52: the integer nearest to
\* ten times its value, ties to even.
Tenths(f) ==
    LET Nearest(whole, rest) ==
            BitsValue(whole, 0)
                + (IF RoundsUp(rest, whole[Len(whole)]) THEN 1 ELSE 0)
        Split(padded, s) ==
            Nearest(SubSeq(padded, 1, Len(padded) - s),
                    SubSeq(padded, Len(padded) - s + 1, Len(padded)))
        Pad(b, s) ==
            Split(IF Len(b) < s + 1 THEN [i \in 1..(s + 1 - Len(b)) |-> 0] \o b ELSE b, s)
    IN  Pad(MulBits(f.bits, 10), -f.exp)

\* f"{price_change:.1f}"
PriceChangeText(d) ==
    LET OneDecimal(tenths) == ToString(tenths \div 10) \o "." \o ToString(tenths % 10)
        Signed(sign, n) ==
            sign \o OneDecimal(Tenths(FloatTimes(FloatDiv(n, d.week_ago_price), 100)))
    IN  IF d.current_price = d.week_ago_price THEN "0.0"
        ELSE IF d.current_price > d.week_ago_price
        THEN Signed("", d.current_price - d.week_ago_price)
        ELSE Signed("-", d.week_ago_price - d.current_price)

\* Factor 1, lines 378-399; price_change = (current - week_ago) / week_ago * 100.
\* With seven points or more line 379 calls d.get on each point, which a
\* HistoricalDataPoint does not have (AttributeError); a price of zero seven
\* daily points ago makes line 383 divide by zero.
MomentumRule(d) ==
    IF d.historical_data < 7 THEN Rule(0, << >>)
    ELSE IF d.point_type = "object" THEN Raised
    ELSE IF d.daily < 7 THEN Rule(0, << >>)
    ELSE IF d.week_ago_price = 0 THEN Raised
    ELSE IF (d.current_price - d.week_ago_price) * 100 > 5 * d.week_ago_price
         THEN Rule(2, <<"Strong positive momentum: +" \o PriceChangeText(d)
                            \o "% in 7 days">>)
    ELSE IF (d.current_price - d.week_ago_price) * 100 > 2 * d.week_ago_price
         THEN Rule(1, <<"Positive momentum: +" \o PriceChangeText(d) \o "% in 7 days">>)
    ELSE IF (d.current_price - d.week_ago_price) * 100 < (-5) * d.week_ago_price
         THEN Rule(-1, <<"Negative momentum: " \o PriceChangeText(d) \o "% in 7 days">>)
    ELSE Rule(0, << >>)

\* Factor 2, lines 401-410.
VolumeRule(d) ==
    IF d.volume > HIGH_VOLUME THEN Rule(1, <<"High trading volume">>)
    ELSE IF d.volume < LOW_VOLUME THEN Rule(-1, <<"Low trading volume">>)
    ELSE Rule(0, << >>)

\* Factor 3, lines 412-419.
CapRule(d) ==
    IF d.market_cap > LARGE_CAP THEN Rule(1, <<"Large market cap">>)
    ELSE IF d.market_cap < SMALL_CAP THEN Rule(-1, <<"Small market cap">>)
    ELSE Rule(0, << >>)

\* Factor 4, lines 421-439; volatility = (max - min) / min * 100.  Line 423
\* calls d.get as line 379 does; a lowest price of zero makes line 426
\* divide by zero.
VolatilityRule(d) ==
    IF d.historical_data < 30 THEN Rule(0, << >>)
    ELSE IF d.point_type = "object" THEN Raised
    ELSE IF d.daily < 30 THEN Rule(0, << >>)
    ELSE IF d.low30 = 0 THEN Raised
    ELSE IF (d.high30 - d.low30) * 100 < 10 * d.low30 THEN Rule(1, <<"Low volatility">>)
    ELSE IF (d.high30 - d.low30) * 100 > 30 * d.low30 THEN Rule(-1, <<"High volatility">>)
    ELSE Rule(0, << >>)

\* Lines 374-439: the four blocks in their order; an exception of one ends
\* the scoring of the symbol.
Scoring(d) ==
    IF MomentumRule(d).raises THEN Raised
    ELSE IF VolatilityRule(d).raises THEN Raised
    ELSE [raises |-> FALSE,
          score |-> MomentumRule(d).delta + VolumeRule(d).delta + CapRule(d).delta
                        + VolatilityRule(d).delta,
          reasons |-> MomentumRule(d).reasons \o VolumeRule(d).reasons
                          \o CapRule(d).reasons \o VolatilityRule(d).reasons]

Label_strict(score) ==
    IF score > 2 THEN "BUY" ELSE IF score > 0 THEN "CONSIDER" ELSE "HOLD"

Label(score) ==
    IF score >= 2 THEN "BUY" ELSE IF score > 0 THEN "CONSIDER" ELSE "HOLD"

RECURSIVE JoinReasons(_)
JoinReasons(reasons) ==
    IF Len(reasons) = 1 THEN reasons[1]
    ELSE reasons[1] \o " | " \o JoinReasons(Tail(reasons))

\* The scored StockDetail of a symbol the rules ran through.
Recommend(d) ==
    LET score == Scoring(d).score
        reasons == Scoring(d).reasons
    IN  [symbol |-> d.symbol, current_price |-> d.current_price,
         historical_data |-> d.historical_data, volume |-> d.volume,
         market_cap |-> d.market_cap, score |-> score, reasons |-> reasons,
         recommendation |-> Label(score),
         recommendation_reason |->
             IF reasons # << >> THEN JoinReasons(reasons) ELSE "Basic recommendation"]

DefaultRecommendation(d) ==
    [symbol |-> d.symbol, current_price |-> d.current_price,
     historical_data |-> d.historical_data, volume |-> d.volume,
     market_cap |-> d.market_cap, score |-> 0, reasons |-> << >>,
     recommendation |-> "BUY",
     recommendation_reason |-> "Default recommendation for testing"]

\* len(x.recommendation_reason.split(" | ")): the text of no reason holds
\* the separator, and "Basic recommendation" is one part.
ReasonParts(rec) == IF rec.reasons = << >> THEN 1 ELSE Len(rec.reasons)

\* recommendations.sort(key=..., reverse=True): stable.
SortByReasonParts(recommendations) ==
    LET n == Len(recommendations)
        rank == AsSeq([i \in 1..n |->
                    1 + Cardinality({j \in 1..n :
                        \/ ReasonParts(recommendations[j]) > ReasonParts(recommendations[i])
                        \/ /\ ReasonParts(recommendations[j]) = ReasonParts(recommendations[i])
                           /\ j < i})])
    IN  AsSeq([p \in 1..n |-> recommendations[CHOOSE i \in 1..n : rank[i] = p]])

\* The iterations of the per-symbol loop whose body ran to the end: an
\* exception in one iteration is caught there and the loop goes on.
Survivors_abort(completed) ==
    {i \in 1..Len(completed) : \A j \in 1..i : completed[j]}

Survivors(completed) ==
    {i \in 1..Len(completed) : completed[i]}

\* The provider's answers for a list of symbols and the runs of
\* get_stock_data on them.
QuotesOf(symbols) == AsSeq([i \in 1..Len(symbols) |-> provider[symbols[i]]])

FetchAll(symbols, quotes) ==
    AsSeq([i \in 1..Len(symbols) |-> get_stock_data(symbols[i], quotes[i])])

Details(r, quotes) == AsSeq([i \in 1..Len(r) |-> Detail(r[i].snap, quotes[i])])

\* How each iteration of the loop of lines 367-450 ends.
Analysis(r, detail) ==
    AsSeq([i \in 1..Len(r) |->
              IF r[i].status # 200 THEN "fetch_raised"
              ELSE IF Scoring(detail[i]).raises THEN "scoring_raised"
              ELSE "scored"])

Completed(analysis) == AsSeq([i \in 1..Len(analysis) |-> analysis[i] = "scored"])

Recommendations(detail, analysis) ==
    Pick(AsSeq([i \in 1..Len(detail) |->
                   IF analysis[i] = "scored" THEN Recommend(detail[i]) ELSE detail[i]]),
         Survivors(Completed(analysis)))

Fetched(r, detail) == Pick(detail, {i \in 1..Len(r) : r[i].status = 200})

DefaultRecommendations_allornothing(r, detail) ==
    IF \E i \in 1..Len(r) : r[i].status # 200 THEN << >>
    ELSE AsSeq([i \in 1..Len(detail) |-> DefaultRecommendation(detail[i])])

DefaultRecommendations(r, detail) ==
    Pick(AsSeq([i \in 1..Len(detail) |-> DefaultRecommendation(detail[i])]),
         {i \in 1..Len(r) : r[i].status = 200})

\* The stocks table after the commits of the successful runs.
RowsAfter(rows, symbols, r) ==
    [s \in DOMAIN rows |->
        IF \E i \in 1..Len(symbols) : symbols[i] = s /\ r[i].status = 200
        THEN r[CHOOSE i \in 1..Len(symbols) : symbols[i] = s].stocks[s]
        ELSE rows[s]]

GetStockRecommendations ==
    \E user_found \in BOOLEAN :
        LET call == Call("get_stock_recommendations", "")
            r == FetchAll(stocks_to_analyze, QuotesOf(stocks_to_analyze))
            detail == Details(r, QuotesOf(stocks_to_analyze))
            analysis == Analysis(r, detail)
            recommendations == Recommendations(detail, analysis)
            analyzed == [call EXCEPT !.status = 200, !.upstream = Len(stocks_to_analyze),
                                     !.analysis = analysis,
                                     !.fetched = Fetched(r, detail),
                                     !.scored = recommendations]
            \* the fallback of lines 459-474 reads its symbols again
            dr == FetchAll(default_symbols, QuotesOf(default_symbols))
        IN  /\ IF ~user_found
               THEN \* HTTPException(404) at line 351 is caught at line 476
                    /\ last' = [call EXCEPT !.status = 500, !.cause = "user"]
                    /\ UNCHANGED stocks
               ELSE IF recommendations # << >>
               THEN /\ last' = [analyzed EXCEPT
                                   !.recs = Take(SortByReasonParts(recommendations),
                                                 TopRecommendations)]
                    /\ stocks' = RowsAfter(stocks, stocks_to_analyze, r)
               ELSE /\ last' = [analyzed EXCEPT
                                   !.upstream = Len(stocks_to_analyze)
                                                   + Len(default_symbols),
                                   !.defaulted = TRUE,
                                   !.recs = DefaultRecommendations(
                                                dr, Details(dr, QuotesOf(default_symbols)))]
                    /\ stocks' = RowsAfter(RowsAfter(stocks, stocks_to_analyze, r),
                                         default_symbols, dr)
            /\ UNCHANGED <<now, stock_cache, last_request_times, rate_limited_until, admitted,
                           news_cache, provider, requests,
                       orders, holdings, stock_analyses>>

\* ---- GET /portfolio -----------------------------------------------------
\* The ways a query without ORDER BY may list the rows of a set.
Orderings(S) ==
    {f \in [1..Cardinality(S) -> S] : \A i, j \in 1..Cardinality(S) : f[i] = f[j] => i = j}

RECURSIVE Sum(_)
Sum(s) == IF s = << >> THEN 0 ELSE Head(s) + Sum(Tail(s))

\* How the body of the loop of lines 519-535 ends for one holding:
\* get_stock_data raises HTTPException(500); gain_loss is divided by
\* shares * average_price; historical_data[-2]['price'] subscripts a
\* HistoricalDataPoint when the history holds more than one point.
HoldingRaises(holding, r) ==
    IF r.status # 200 THEN "fetch"
    ELSE IF holding.shares * holding.average_price[1] = 0 THEN "ZeroDivisionError"
    ELSE IF r.snap.historical_data > 1 THEN "TypeError"
    ELSE ""

GetPortfolio ==
    \E user_found \in BOOLEAN, held \in Orderings({s \in Symbols : holdings[s] # NoHolding}) :
        \E ins \in [1..Len(held) -> FetchInputs] :
            LET call == Call("get_portfolio", "")
                r == FetchAll(held, AsSeq(ins))
                raises == AsSeq([i \in 1..Len(held) |->
                                    HoldingRaises(holdings[held[i]], r[i])])
                failing == {i \in 1..Len(held) : raises[i] # ""}
                \* the loop ends at the first holding whose iteration raises
                stop == IF failing = {} THEN Len(held)
                        ELSE CHOOSE i \in failing : \A j \in failing : i <= j
                total_value == Sum(AsSeq([i \in 1..Len(held) |->
                                   holdings[held[i]].shares * r[i].snap.current_price]))
            IN  /\ IF ~user_found
                   THEN /\ last' = [call EXCEPT !.status = 404, !.cause = "user"]
                        /\ UNCHANGED stocks
                   ELSE /\ last' = IF failing = {}
                                   THEN [call EXCEPT !.status = 200,
                                                     !.upstream = Len(held),
                                                     !.total = total_value]
                                   ELSE [call EXCEPT !.status = 500,
                                                     !.cause = raises[stop],
                                                     !.upstream = stop]
                        /\ stocks' = RowsAfter(stocks, SubSeq(held, 1, stop),
                                               SubSeq(r, 1, stop))
                /\ UNCHANGED <<now, stock_cache, last_request_times, rate_limited_until,
                               admitted, news_cache, provider, requests, orders, holdings, stock_analyses>>

\* ---- GET /watchlist -----------------------------------------------------
\* One entry of the answer: from the fetched StockDetail, or, when
\* get_stock_data raised, from the row of the stocks table.
WatchlistEntry(symbol, r) ==
    IF r.status = 200
    THEN [symbol |-> symbol, current_price |-> r.snap.current_price,
          shares_owned |-> holdings[symbol].shares,
          total_value |-> holdings[symbol].shares * r.snap.current_price]
    ELSE [symbol |-> symbol, current_price |-> stocks[symbol].current_price,
          shares_owned |-> 0, total_value |-> 0]

\* The watchlist rows of the requesting user join rows of the stocks table.
GetWatchlist ==
    \E user_found \in BOOLEAN, watched \in StockWatchlists :
        \E ins \in [1..Len(watched) -> FetchInputs] :
            LET call == Call("get_watchlist", "")
                r == FetchAll(watched, AsSeq(ins))
            IN  /\ \A i \in 1..Len(watched) : stocks[watched[i]] # NoRow
                /\ IF ~user_found
                   THEN /\ last' = [call EXCEPT !.status = 404, !.cause = "user"]
                        /\ UNCHANGED stocks
                   ELSE /\ last' = [call EXCEPT
                                       !.status = 200,
                                       !.symbols = watched,
                                       !.upstream = Len(watched),
                                       !.items = AsSeq([i \in 1..Len(watched) |->
                                                     WatchlistEntry(watched[i], r[i])])]
                        /\ stocks' = RowsAfter(stocks, watched, r)
                /\ UNCHANGED <<now, stock_cache, last_request_times, rate_limited_until,
                               admitted, news_cache, provider, requests, orders, holdings, stock_analyses>>

\* ---- get_stock_data: historical_data -----------------------------------
\* Index values of the history frames are seconds; DAY seconds make a day.
DAY == 86400

\* Times of day of the intraday rows (00:00:00, 09:30:00, 09:35:00).
IntradayTimes == {0, 34200, 34500}

DailyStamps == {d * DAY : d \in 1..MaxDay}

IntradayStamps == {d * DAY + t : d \in (MaxDay - 1)..MaxDay, t \in IntradayTimes}

\* A frame lists its rows by ascending index.
Frame(stamps) ==
    AsSeq([n \in 1..Cardinality(stamps) |->
              CHOOSE x \in stamps : Cardinality({y \in stamps : y <= x}) = n])

\* date.strftime('%Y-%m-%d') and date.strftime('%Y-%m-%d %H:%M:%S'): the
\* zero-padded fields of the text, most significant first.
DailyDate(stamp) == <<stamp \div DAY>>

IntradayDate(stamp) == <<stamp \div DAY, stamp % DAY>>

\* Order of the date texts: field by field, and a text that is a prefix of
\* another comes first.
DateBefore(a, b) ==
    \/ a[1] < b[1]
    \/ /\ a[1] = b[1]
       /\ \/ Len(a) < Len(b)
          \/ Len(a) = 2 /\ Len(b) = 2 /\ a[2] < b[2]

SortByDate_none(points) == points

\* historical_data.sort(key=lambda x: x['date']): stable, ascending.
SortByDate(points) ==
    LET n == Len(points)
        rank == AsSeq([i \in 1..n |->
                    1 + Cardinality({j \in 1..n :
                        \/ DateBefore(points[j].date, points[i].date)
                        \/ points[j].date = points[i].date /\ j < i})])
    IN  AsSeq([p \in 1..n |-> points[CHOOSE i \in 1..n : rank[i] = p]])

DailyPoints(five_year_hist) ==
    AsSeq([i \in 1..Len(five_year_hist) |->
              [date |-> DailyDate(five_year_hist[i]), is_intraday |-> FALSE]])

\* intraday_hist[intraday_hist.index.date == today]
TodaysRows(intraday_hist, today) ==
    SelectSeq(intraday_hist, LAMBDA stamp : stamp \div DAY = today)

IntradayPoints(rows) ==
    AsSeq([i \in 1..Len(rows) |-> [date |-> IntradayDate(rows[i]), is_intraday |-> TRUE]])

\* Lines 164-214: the daily rows, then today's intraday rows, then the sort.
historical_data(five_year_hist, intraday_hist, today) ==
    SortByDate(DailyPoints(five_year_hist)
                   \o IntradayPoints(TodaysRows(intraday_hist, today)))

\* Lines 118-214 of one run of get_stock_data against the frames the
\* provider holds; an exception of a ticker.history call empties both frames.
BuildHistory ==
    LET today == now \div DAY
        five_year_hist == IF provider.raises THEN << >> ELSE provider.daily
        intraday_hist == IF provider.raises THEN << >> ELSE provider.intraday
    IN  /\ last' = [Call("historical_data", "") EXCEPT
                       !.status = 200,
                       !.throttled = provider.raises,
                       !.history = historical_data(five_year_hist, intraday_hist, today)]
        /\ UNCHANGED <<now, stock_cache, last_request_times, rate_limited_until, stocks,
                       admitted, news_cache, provider, requests,
                       orders, holdings, stock_analyses>>

\* ---- the clock ---------------------------------------------------------
Tick ==
    \E d \in TickSteps :
        /\ now + d <= MaxTime
        /\ now' = now + d
        /\ UNCHANGED <<stock_cache, last_request_times, rate_limited_until, stocks, last, admitted,
                       news_cache, provider, requests,
                       orders, holdings, stock_analyses>>

TickWindow ==
    \E d \in WindowTickSteps :
        /\ now + d <= MaxWindowTime
        /\ now' = now + d
        /\ UNCHANGED <<stock_cache, last_request_times, rate_limited_until, stocks, last, admitted,
                       news_cache, provider, requests,
                       orders, holdings, stock_analyses>>

\* ---- specification -----------------------------------------------------
InitStocks ==
    [s \in Symbols |-> IF s \in SeededStocks
                       THEN [current_price |-> SeedPrice, last_updated |-> 0]
                       ELSE NoRow]

Init ==
    /\ now = 0
    /\ stock_cache = << >>
    /\ last_request_times = << >>
    /\ rate_limited_until = NoTime
    /\ stocks = InitStocks
    /\ last = NoCall
    /\ admitted = << >>
    /\ news_cache = << >>
    /\ provider = << >>
    /\ requests = << >>
    /\ orders = << >>
    /\ holdings = NoHoldings
    /\ stock_analyses = NoAnalyses

\* The endpoints that run the acquisition layer, for a user who holds
\* nothing or one share of a seeded stock, bought at its seed price or at a
\* quoted price of zero.  No handler of the repository calls
\* check_rate_limit or handle_rate_limit; the two functions are followed on
\* their own below.
AccountHoldings ==
    { NoHoldings }
    \cup {[NoHoldings EXCEPT ![s] = BuyInto(NoHolding, 1, price, price)] :
              s \in SeededStocks, price \in {0, SeedPrice}}

InitAccount ==
    /\ now = 0
    /\ stock_cache = << >>
    /\ last_request_times = << >>
    /\ rate_limited_until = NoTime
    /\ stocks = InitStocks
    /\ last = NoCall
    /\ admitted = << >>
    /\ news_cache = << >>
    /\ provider = << >>
    /\ requests = << >>
    /\ orders = << >>
    /\ holdings \in AccountHoldings
    /\ stock_analyses = NoAnalyses

Next ==
    \/ Tick
    \/ SearchStocks
    \/ GetStock
    \/ GetPortfolio
    \/ GetWatchlist

Spec == InitAccount /\ [][Next]_vars

\* The limiter on its own: the clock and the two limiter functions.
NextLimiter ==
    \/ Tick
    \/ CheckRateLimit
    \/ HandleRateLimit

SpecLimiter == Init /\ [][NextLimiter]_vars

\* A sequence of check_rate_limit calls at non-decreasing times and nothing else.
NextChecks ==
    \/ Tick
    \/ CheckRateLimit

SpecChecks == Init /\ [][NextChecks]_vars

\* The market-news endpoint on the news clock.
NextMarketNews ==
    \/ TickNews
    \/ GetMarketNews

SpecMarketNews == Init /\ [][NextMarketNews]_vars

\* The per-stock and watchlist news endpoints, which share the stock_news_
\* entries of news_cache.
NextStockNews ==
    \/ TickNews
    \/ GetStockNews
    \/ GetWatchlistNews

SpecStockNews == Init /\ [][NextStockNews]_vars

\* The three news endpoints side by side on the news clock.
NextNews ==
    \/ TickNews
    \/ GetMarketNewsOf(TtlOutcomes)
    \/ GetStockNewsOf(TtlOutcomes)
    \/ GetWatchlistNewsOf(TtlOutcomes)

SpecNews == Init /\ [][NextNews]_vars

\* The order endpoint against the stocks table as seeded and as the two
\* requests that insert rows extend it: a search, and an analysis of a
\* symbol that has no row.
NextOrders ==
    \/ SearchStocks
    \/ GetStockAnalysis
    \/ CreateOrder

SpecOrders == Init /\ [][NextOrders]_vars

\* The watchlist endpoint serving users whose watchlists differ in order and
\* in symbols.
NextWatchlistKey ==
    \/ TickNews
    \/ GetWatchlistNewsOfUsers

SpecWatchlistKey == Init /\ [][NextWatchlistKey]_vars

\* The recommender on its own.  Every symbol of its list has a row in the
\* stocks table (the seeded rows and those a search has added).  The
\* provider answers every symbol with one common quote, except for
\* VariedLen consecutive symbols of the list, each of which gets a quote of
\* its own.
RecSymbols == {stocks_to_analyze[i] : i \in 1..Len(stocks_to_analyze)}

RecAssignments ==
    {[i \in 1..Len(stocks_to_analyze) |->
         IF i >= first /\ i < first + VariedLen THEN varied[i - first + 1] ELSE common] :
        common \in RecQuotes,
        first \in 1..(Len(stocks_to_analyze) - VariedLen + 1),
        varied \in [1..VariedLen -> RecQuotes]}

InitRec ==
    /\ now = 0
    /\ stock_cache = << >>
    /\ last_request_times = << >>
    /\ rate_limited_until = NoTime
    /\ stocks = [s \in RecSymbols |-> [current_price |-> SeedPrice, last_updated |-> 0]]
    /\ last = NoCall
    /\ admitted = << >>
    /\ news_cache = << >>
    /\ \E quotes \in RecAssignments :
           provider = [s \in RecSymbols |->
                          quotes[CHOOSE i \in 1..Len(stocks_to_analyze) :
                                     stocks_to_analyze[i] = s]]
    /\ requests = << >>
    /\ orders = << >>
    /\ holdings = NoHoldings
    /\ stock_analyses = NoAnalyses

NextRec == GetStockRecommendations

SpecRec == InitRec /\ [][NextRec]_vars

\* The history block of get_stock_data on its own, against every pair of
\* frames and on either of the last two days, in the morning.
InitHistory ==
    /\ \E today \in (MaxDay - 1)..MaxDay : now = today * DAY + 36000
    /\ stock_cache = << >>
    /\ last_request_times = << >>
    /\ rate_limited_until = NoTime
    /\ stocks = InitStocks
    /\ last = NoCall
    /\ admitted = << >>
    /\ news_cache = << >>
    /\ \E daily \in SUBSET DailyStamps, intraday \in SUBSET IntradayStamps,
          raises \in BOOLEAN :
           provider = [daily |-> Frame(daily), intraday |-> Frame(intraday),
                       raises |-> raises]
    /\ requests = << >>
    /\ orders = << >>
    /\ holdings = NoHoldings
    /\ stock_analyses = NoAnalyses

NextHistory == BuildHistory

SpecHistory == InitHistory /\ [][NextHistory]_vars

\* Calls of check_rate_limit on the clock of the window invariant.
NextWindow ==
    \/ TickWindow
    \/ CheckRateLimit

SpecWindow == Init /\ [][NextWindow]_vars

\* Requests running check_rate_limit on concurrent threads.
InitConcurrent ==
    /\ now = 0
    /\ stock_cache = << >>
    /\ last_request_times = << >>
    /\ rate_limited_until = NoTime
    /\ stocks = InitStocks
    /\ last = NoCall
    /\ admitted = << >>
    /\ news_cache = << >>
    /\ provider = << >>
    /\ requests = [r \in Requests |-> Idle]
    /\ orders = << >>
    /\ holdings = NoHoldings
    /\ stock_analyses = NoAnalyses

NextConcurrent ==
    \/ Tick
    \/ \E r \in Requests : ReqEnter(r)
    \/ \E r \in Requests : ReqBackoff(r)
    \/ \E r \in Requests : ReqCompare(r)
    \/ \E r \in Requests : ReqRemaining(r)
    \/ \E r \in Requests : ReqResetUntil(r)
    \/ \E r \in Requests : ReqResetTimes(r)
    \/ \E r \in Requests : ReqPurge(r)
    \/ \E r \in Requests : ReqHead(r)
    \/ \E r \in Requests : ReqPop(r)
    \/ \E r \in Requests : ReqDecide(r)
    \/ \E r \in Requests : ReqStartBackoff(r)
    \/ \E r \in Requests : ReqAppend(r)

SpecConcurrent == InitConcurrent /\ [][NextConcurrent]_vars

\* ---- vocabulary of the properties --------------------------------------
\* A step taken by the named function (the clock stands still during a call).
CheckStep == last'.op = "check_rate_limit" /\ now' = now
HandleStep == last'.op = "handle_rate_limit" /\ now' = now
FetchStep == last'.op = "get_stock" /\ last'.cause # "user" /\ now' = now

\* The recorded call ran get_stock_data.
IsFetch(c) == c.op = "get_stock" /\ c.cause # "user"

InBackoff == rate_limited_until # NoTime /\ now < rate_limited_until
BackoffExpired == rate_limited_until # NoTime /\ now >= rate_limited_until

\* check_rate_limit would return False in the current state.
LimiterDenies ==
    \/ InBackoff
    \/ /\ rate_limited_until = NoTime
       /\ Len(PurgeOld(last_request_times, now)) >= MAX_REQUESTS_PER_WINDOW

Range(s) == {s[i] : i \in 1..Len(s)}

\* ---- C1 ----------------------------------------------------------------
\* C1: a second get_stock_data(S) made within CACHE_DURATION of a successful
\* one, with nothing in between, makes no upstream call and returns the same
\* snapshot as the first.
C1_SecondFetchServedFromCache ==
    [][ ( /\ IsFetch(last) /\ last.status = 200
          /\ FetchStep
          /\ last'.symbol = last.symbol
          /\ now - last.snap.last_updated < CACHE_DURATION )
        => ( /\ last'.upstream = 0
             /\ last'.status = 200
             /\ last'.snap = last.snap ) ]_vars

\* ---- C2 ----------------------------------------------------------------
\* C2: no rolling interval of RATE_LIMIT_WINDOW seconds holds more than
\* MAX_REQUESTS_PER_WINDOW admitted calls (any six consecutive admissions
\* span more than the window), and a call made during backoff is rejected.
C2_AtMostFivePerWindow ==
    [][ /\ ( Len(admitted') > MAX_REQUESTS_PER_WINDOW
             => admitted'[Len(admitted')]
                  - admitted'[Len(admitted') - MAX_REQUESTS_PER_WINDOW] > RATE_LIMIT_WINDOW )
        /\ ( (CheckStep /\ InBackoff) => ~last'.ret ) ]_vars

\* ---- C3 ----------------------------------------------------------------
\* C3: a check_rate_limit call made when a backoff is set and has expired
\* returns True, clears rate_limited_until and leaves last_request_times
\* holding only the time of that call.
C3_ExpiryResetsWindow ==
    [][ (CheckStep /\ BackoffExpired)
        => ( /\ last'.ret
             /\ rate_limited_until' = NoTime
             /\ last_request_times' = <<now>> ) ]_vars

\* Five admissions, a backoff, and an admission after its expiry while the
\* five earlier timestamps were still inside the window.
C3_Witness ==
    /\ last.op = "check_rate_limit" /\ last.reset /\ last.ret
    /\ Len(admitted) > MAX_REQUESTS_PER_WINDOW
    /\ admitted[Len(admitted)] - admitted[1] <= RATE_LIMIT_WINDOW
    /\ last_request_times = <<now>>

\* ---- C4 ----------------------------------------------------------------
\* C4: when the cache holds a snapshot for S and the upstream throttles
\* during get_stock_data(S), the call returns the cached snapshot and does
\* not raise.  The snapshot the cache holds for S right after a successful
\* get_stock_data(S) is the one that call returned.
C4_ThrottledFetchReturnsCached ==
    [][ ( /\ IsFetch(last) /\ last.status = 200
          /\ FetchStep
          /\ last'.symbol = last.symbol
          /\ last'.throttled )
        => ( /\ last'.status = 200
             /\ last'.snap = last.snap ) ]_vars

\* ---- C5 ----------------------------------------------------------------
\* C5: when the cache holds nothing for S and the upstream throttles during
\* get_stock_data(S), the call fails with status 429.
C5_ThrottledFetchWithoutCacheIs429 ==
    ( /\ IsFetch(last) /\ last.throttled
      /\ last.symbol \notin DOMAIN stock_cache )
    => last.status = 429

\* ---- C6 ----------------------------------------------------------------
\* C6: get_stock_data calls the upstream only when check_rate_limit admits
\* the request (recording its time); when the limiter denies it there is no
\* upstream call and the response is the cached entry, or 429 without one.
C6_UpstreamOnlyAfterAdmission ==
    [][ FetchStep
        => ( /\ ( last'.upstream > 0
                  => ( ~LimiterDenies /\ now \in Range(last_request_times') ) )
             /\ ( LimiterDenies
                  => ( /\ last'.upstream = 0
                       /\ IF last'.symbol \in DOMAIN stock_cache
                          THEN /\ last'.status = 200
                               /\ last'.snap = stock_cache[last'.symbol].snap
                          ELSE last'.status = 429 ) ) ) ]_vars

\* ---- C7 ----------------------------------------------------------------
\* C7: after handle_rate_limit runs at time t, rate_limited_until is set and
\* later than t, whatever the limiter state was before.
C7_HandleAlwaysEntersBackoff ==
    [][ HandleStep
        => ( rate_limited_until' # NoTime /\ rate_limited_until' > now ) ]_vars

\* ---- C8 ----------------------------------------------------------------
\* C8: when the store upsert fails after a successful upstream fetch,
\* get_stock_data still returns the fetched snapshot.
C8_UpsertFailureSwallowed ==
    ( IsFetch(last) /\ last.info = "ok" /\ last.upsert = "fail" )
    => ( last.status = 200 /\ last.snap # NoSnap )

\* ---- C9 ----------------------------------------------------------------
\* C9: after get_stock_data(S) fetched successfully from the upstream, the
\* cache holds an entry for S, whether or not the upsert succeeded; when a
\* snapshot was returned the entry is that snapshot and its store time.
C9_FetchPopulatesCache ==
    ( IsFetch(last) /\ last.info = "ok" )
    => ( /\ last.symbol \in DOMAIN stock_cache
         /\ ( last.status = 200
              => stock_cache[last.symbol] =
                     [snap |-> last.snap, time |-> last.snap.last_updated] ) )

\* ---- C10 ---------------------------------------------------------------
\* C10: when the upstream does not recognise the symbol (reading the basic
\* info fails), the caller receives status 404.
C10_UnknownSymbolIs404 ==
    ( IsFetch(last) /\ last.info = "unknown" )
    => last.status = 404

\* ---- C11 ---------------------------------------------------------------
\* C11: get_stock_data never returns a newly built snapshot whose current
\* price is zero; when the provider supplies no price it answers from the
\* cache, or fails when the cache has no entry for the symbol.
C11_NoZeroPricedSnapshot ==
    ( IsFetch(last) /\ last.status = 200 /\ last.snap.current_price = 0 )
    => ( /\ last.symbol \in DOMAIN stock_cache
         /\ last.snap = stock_cache[last.symbol].snap )

\* ---- C12 ---------------------------------------------------------------
IsNewsResponse(c) ==
    /\ c.op \in {"get_market_news", "get_watchlist_news", "get_stock_news"}
    /\ c.status = 200

NewestFirst(items) ==
    \A i \in 1..(Len(items) - 1) : items[i].published_date >= items[i + 1].published_date

\* C12: every sequence a news endpoint returns, fetched or served from
\* news_cache, is ordered by published_date descending.
C12_ReturnedNewsNewestFirst ==
    IsNewsResponse(last) => NewestFirst(last.news)

\* ---- C13 ---------------------------------------------------------------
\* C13: a get_market_news response has at most 20 items and a
\* get_watchlist_news response at most 30, on a cache hit as on a fetch.
C13_ResponsesTruncated ==
    /\ (last.op = "get_market_news" /\ last.status = 200)
           => Len(last.news) <= MarketNewsLimit
    /\ (last.op = "get_watchlist_news" /\ last.status = 200)
           => Len(last.news) <= WatchlistNewsLimit

\* ---- C14 ---------------------------------------------------------------
UniqueTitles(items) ==
    \A i, j \in 1..Len(items) : items[i].title = items[j].title => i = j

\* C14: no batch returned by a news endpoint holds two items of the same
\* title.
C14_ReturnedTitlesUnique ==
    IsNewsResponse(last) => UniqueTitles(last.news)

\* ---- C15 ---------------------------------------------------------------
MarketFetch(c) == c.op = "get_market_news" /\ c.status = 200 /\ ~c.hit

\* Titles the call collected from at least two index tickers.
SharedTitles(items) ==
    {t \in Titles(items) :
        \E i, j \in 1..Len(items) :
            /\ items[i].title = t /\ items[j].title = t
            /\ items[i].publisher # items[j].publisher}

FirstWithTitle(items, t) ==
    items[CHOOSE i \in 1..Len(items) :
              /\ items[i].title = t
              /\ \A j \in 1..(i - 1) : items[j].title # t]

WithTitle(items, t) == {i \in 1..Len(items) : items[i].title = t}

\* C15 as stated: a title get_market_news collected from different index
\* tickers occurs exactly once in the output, with the fields of the item
\* encountered first.
C15_SharedTitleOnceInOutput ==
    MarketFetch(last) =>
        \A t \in SharedTitles(last.collected) :
            /\ Cardinality(WithTitle(last.news, t)) = 1
            /\ \A i \in WithTitle(last.news, t) :
                   last.news[i] = FirstWithTitle(last.collected, t)

\* C15 amended: a title get_market_news collected from different index
\* tickers occurs exactly once in the de-duplicated batch the call stores,
\* with the fields of the item encountered first; the output, being the 20
\* newest items of that batch, holds that item or no item of the title.
C15_SharedTitleOnceInBatch ==
    MarketFetch(last) =>
        \A t \in SharedTitles(last.collected) :
            LET batch == news_cache[MARKET_NEWS_CACHE_KEY].news
            IN  /\ Cardinality(WithTitle(batch, t)) = 1
                /\ \A i \in WithTitle(batch, t) : batch[i] = FirstWithTitle(last.collected, t)
                /\ Cardinality(WithTitle(last.news, t)) <= 1
                /\ \A i \in WithTitle(last.news, t) :
                       last.news[i] = FirstWithTitle(last.collected, t)
                /\ Len(batch) <= MarketNewsLimit
                       => Cardinality(WithTitle(last.news, t)) = 1

\* Two tickers supplied the same title and the output holds the first one.
C15_Witness ==
    /\ MarketFetch(last)
    /\ \E t \in SharedTitles(last.collected) :
           /\ FirstWithTitle(last.collected, t).publisher = market_tickers[1]
           /\ \E i \in 1..Len(last.news) :
                  last.news[i] = FirstWithTitle(last.collected, t)

\* ---- C16 ---------------------------------------------------------------
\* A news request answered in this step for a key that had a cache entry.
NewsStepOnEntry ==
    /\ last'.op \in {"get_market_news", "get_watchlist_news", "get_stock_news"}
    /\ now' = now
    /\ last'.key \in DOMAIN news_cache

EntryAge == now - news_cache[last'.key].time

\* C16 as stated: a request for a key whose entry is younger than 30
\* minutes makes no upstream call; one for a key whose entry is 30 minutes
\* old or older queries the upstream and replaces the entry, stored at the
\* time of the request.
C16_StaleEntryRefetchedAndReplaced ==
    [][ NewsStepOnEntry =>
            /\ EntryAge < NEWS_CACHE_DURATION => last'.upstream = 0
            /\ EntryAge >= NEWS_CACHE_DURATION =>
                   /\ last'.upstream > 0
                   /\ news_cache'[last'.key].time = now ]_vars

\* Watchlist symbols whose own stock_news entry is not fresh.
NotFreshSymbols(key) ==
    UNION {{i \in 1..Len(w) : ~NewsFresh(StockNewsKey(w[i]))} :
              w \in {v \in Watchlists : WatchlistNewsKey(v) = key}}

\* C16 amended: a request for a key whose entry is younger than 30 minutes
\* (not 5) is served from the entry with no upstream call and no cache
\* write.  A request for a key whose entry is 30 minutes old or older is not
\* served from it: get_market_news queries every index ticker,
\* get_stock_news queries the upstream, get_watchlist_news queries the
\* upstream only for the symbols whose own entry is not fresh; each replaces
\* the entry when it answers 200, and leaves the old entry in place when it
\* answers 500 (the upstream of get_stock_news raised, or the dates
\* collected could not be sorted).
C16_StaleEntryNotServed ==
    [][ NewsStepOnEntry =>
            /\ EntryAge < NEWS_CACHE_DURATION =>
                   /\ last'.hit
                   /\ last'.upstream = 0
                   /\ last'.news = news_cache[last'.key].news
                   /\ news_cache' = news_cache
            /\ EntryAge >= NEWS_CACHE_DURATION =>
                   /\ ~last'.hit
                   /\ last'.op = "get_market_news" =>
                          /\ last'.upstream = Len(market_tickers)
                          /\ last'.status = 200 => news_cache'[last'.key].time = now
                          /\ last'.status # 200 => news_cache' = news_cache
                   /\ last'.op = "get_stock_news" =>
                          /\ last'.upstream = 1
                          /\ last'.status = 200 => news_cache'[last'.key].time = now
                          /\ last'.status # 200 => news_cache' = news_cache
                   /\ last'.op = "get_watchlist_news" =>
                          /\ last'.upstream = Cardinality(NotFreshSymbols(last'.key))
                          /\ last'.status = 200 => news_cache'[last'.key].time = now
                          /\ last'.status # 200 =>
                                 news_cache'[last'.key] = news_cache[last'.key] ]_vars

\* A refetch of the stale market entry failed and the entry is still there,
\* next to a per-stock entry as old that a failed refetch would leave so.
C16_Witness ==
    /\ last.op = "get_market_news"
    /\ last.status = 500
    /\ last.key \in DOMAIN news_cache
    /\ now - news_cache[last.key].time >= NEWS_CACHE_DURATION
    /\ \E symbol \in NewsSymbols :
           /\ StockNewsKey(symbol) \in DOMAIN news_cache
           /\ now - news_cache[StockNewsKey(symbol)].time >= NEWS_CACHE_DURATION

\* ---- C17 ---------------------------------------------------------------
\* A recommendation request of an existing user.
IsRecommendation(c) == c.op = "get_stock_recommendations" /\ c.cause # "user"

Symbols_of(recs) == {recs[i].symbol : i \in 1..Len(recs)}

\* C17: for an existing user get_stock_recommendations answers with a list
\* whatever happens per symbol: a symbol whose fetch or scoring raised is
\* left out, every other symbol of the universe is scored, and no failure
\* reaches the caller.
C17_FailuresSkippedNotPropagated ==
    IsRecommendation(last) =>
        /\ last.status = 200
        /\ Len(last.analysis) = Len(stocks_to_analyze)
        /\ \A i \in 1..Len(stocks_to_analyze) :
               (stocks_to_analyze[i] \in Symbols_of(last.scored))
                   <=> (last.analysis[i] = "scored")
        /\ ~last.defaulted => Symbols_of(last.recs) \subseteq Symbols_of(last.scored)

\* A fetch raised for one symbol, the scoring for another, the 23 other
\* symbols of the list were scored and one analysed after both is in the
\* answer.
C17_Witness ==
    /\ IsRecommendation(last)
    /\ last.status = 200
    /\ Len(last.scored) = Len(stocks_to_analyze) - 2
    /\ \E i, j, k \in 1..Len(stocks_to_analyze) :
           /\ i < k /\ j < k
           /\ last.analysis[i] = "fetch_raised"
           /\ last.analysis[j] = "scoring_raised"
           /\ stocks_to_analyze[k] \in Symbols_of(last.recs)

\* ---- C18 ---------------------------------------------------------------
\* A StockDetail whose points are the dicts the rules subscript.
AsDicts(d) == [d EXCEPT !.point_type = "dict"]
\* C18: every fetched symbol is in the scored results with the sum of the
\* four rules as its score and one reason per triggered rule, in the order
\* momentum, volume, cap, volatility.
C18_ScoreIsSumOfFourRules ==
    IsRecommendation(last) =>
        \A i \in 1..Len(last.fetched) :
            /\ ~Scoring(AsDicts(last.fetched[i])).raises
            /\ \E j \in 1..Len(last.scored) :
                   /\ last.scored[j].symbol = last.fetched[i].symbol
                   /\ last.scored[j].score = Scoring(AsDicts(last.fetched[i])).score
                   /\ last.scored[j].reasons = Scoring(AsDicts(last.fetched[i])).reasons
\* ---- C19 ---------------------------------------------------------------
\* C19: a result scored from the universe is labelled BUY exactly when its
\* score is 2 or more, CONSIDER exactly when its score is 1, HOLD otherwise.
C19_LabelFollowsScore ==
    (IsRecommendation(last) /\ ~last.defaulted) =>
        \A i \in 1..Len(last.recs) :
            LET rec == last.recs[i]
            IN  /\ rec.recommendation = "BUY" <=> rec.score >= 2
                /\ rec.recommendation = "CONSIDER" <=> rec.score = 1
                /\ rec.recommendation = "HOLD" <=> rec.score <= 0

\* One answer carries all three labels, the HOLD on a negative score.
C19_Witness ==
    /\ IsRecommendation(last)
    /\ ~last.defaulted
    /\ \E i, j, k \in 1..Len(last.recs) :
           /\ last.recs[i].recommendation = "BUY" /\ last.recs[i].score = 2
           /\ last.recs[j].recommendation = "CONSIDER" /\ last.recs[j].score = 1
           /\ last.recs[k].recommendation = "HOLD" /\ last.recs[k].score < 0

\* ---- C20 ---------------------------------------------------------------
\* C20: the list returned from the scored universe has at most 5 entries and
\* no result, returned later or left out, has more triggered reasons than a
\* result returned before it.
C20_TopFiveByReasonCount ==
    (IsRecommendation(last) /\ ~last.defaulted) =>
        /\ Len(last.recs) <= TopRecommendations
        /\ \A i, j \in 1..Len(last.recs) :
               i < j => Len(last.recs[i].reasons) >= Len(last.recs[j].reasons)
        /\ \A i \in 1..Len(last.recs), k \in 1..Len(last.scored) :
               last.scored[k].symbol \notin Symbols_of(last.recs)
                   => Len(last.recs[i].reasons) >= Len(last.scored[k].reasons)

\* ---- C21 ---------------------------------------------------------------
\* The default symbols the provider answers for, in the order of the list.
AnsweredDefaults ==
    SelectSeq(default_symbols, LAMBDA s : provider[s].info = "ok" /\ stocks[s] # NoRow)

\* C21: when none of the 25 symbols of the universe yields a result the
\* request answers with the default list: every default symbol is fetched again through
\* get_stock_data, each one whose fetch succeeds is returned, in list order,
\* as BUY with the canned reason, and a default whose fetch fails is left
\* out without failing the request.
C21_FallbackToDefaults ==
    (IsRecommendation(last) /\ last.scored = << >>) =>
        /\ last.status = 200
        /\ last.defaulted
        /\ Len(last.analysis) = Len(stocks_to_analyze)
        /\ last.upstream = Len(stocks_to_analyze) + Len(default_symbols)
        /\ Len(last.recs) = Len(AnsweredDefaults)
        /\ \A i \in 1..Len(last.recs) :
               /\ last.recs[i].symbol = AnsweredDefaults[i]
               /\ last.recs[i].current_price = provider[AnsweredDefaults[i]].price
               /\ last.recs[i].recommendation = "BUY"
               /\ last.recs[i].recommendation_reason = "Default recommendation for testing"

\* Nothing was scored, one default failed again and another was returned.
C21_Witness ==
    /\ IsRecommendation(last)
    /\ last.scored = << >>
    /\ last.defaulted
    /\ \E s \in Symbols_of(last.recs) : s \in RecSymbols
    /\ \E i \in 1..Len(default_symbols) : default_symbols[i] \notin Symbols_of(last.recs)

\* ---- C22 ---------------------------------------------------------------
\* The instant a date text of historical_data stands for.
Timestamp(date) == date[1] * DAY + (IF Len(date) = 2 THEN date[2] ELSE 0)

HistoryBuilt(c) == c.op = "historical_data" /\ ~c.throttled

\* C22: from d daily rows and i intraday rows dated today the history block
\* builds d + i entries in ascending order of their timestamps, exactly the i
\* intraday ones flagged is_intraday; intraday rows of another day are
\* left out.
C22_HistoryMerged ==
    HistoryBuilt(last) =>
        LET today == now \div DAY
            h == last.history
            todays == {x \in Range(provider.intraday) : x \div DAY = today}
            flagged == {k \in 1..Len(h) : h[k].is_intraday}
        IN  /\ Len(h) = Len(provider.daily) + Cardinality(todays)
            /\ \A k \in 1..(Len(h) - 1) : Timestamp(h[k].date) <= Timestamp(h[k + 1].date)
            /\ Cardinality(flagged) = Cardinality(todays)
            /\ {Timestamp(h[k].date) : k \in flagged} = todays
            /\ {Timestamp(h[k].date) : k \in (1..Len(h)) \ flagged} = Range(provider.daily)

\* Five daily rows and three intraday rows of today gave eight entries, and
\* an intraday row of the day before was left out.
C22_Witness ==
    /\ HistoryBuilt(last)
    /\ Len(provider.daily) = 5
    /\ Len(last.history) = 8
    /\ Cardinality({k \in 1..Len(last.history) : last.history[k].is_intraday}) = 3
    /\ \E x \in Range(provider.intraday) : x \div DAY # now \div DAY

\* ---- C23 ---------------------------------------------------------------
\* C23: whenever handle_rate_limit answers 429, the retry-after it reports
\* is the number of seconds from now until rate_limited_until and lies
\* between 0 and BACKOFF_PERIOD; it is never negative.
C23_RetryAfterWithinBackoff ==
    [][ (HandleStep /\ last'.status = 429)
        => ( /\ last'.retry_after = rate_limited_until' - now
             /\ last'.retry_after >= 0
             /\ last'.retry_after <= BACKOFF_PERIOD ) ]_vars

\* ---- C24 ---------------------------------------------------------------
\* C24: with several requests inside check_rate_limit at once, scheduled
\* between its statements, updates of the limiter state exclude one another:
\* a request that appends has seen the list as it is when it appends, so
\* last_request_times never holds more than 5 timestamps.
C24_ConcurrentChecksExclusive ==
    Len(last_request_times) <= MAX_REQUESTS_PER_WINDOW

\* ---- C25 ---------------------------------------------------------------
\* The entries a call at time t finds after the reset of an expired backoff
\* and the purge of the entries older than the window.
InWindow(times, t) == SelectSeq(times, LAMBDA x : t - x <= RATE_LIMIT_WINDOW)

Purged == InWindow(IF BackoffExpired THEN << >> ELSE last_request_times, now)

\* C25: a check_rate_limit call at time t outside backoff that finds 5 or
\* more entries after the purge returns False, sets rate_limited_until to
\* t + 30 and does not append t; one that finds fewer returns True, appends t
\* as the last entry and leaves rate_limited_until unset.
C25_AdmissionDecision ==
    [][ (CheckStep /\ ~InBackoff)
        => IF Len(Purged) >= MAX_REQUESTS_PER_WINDOW
           THEN /\ ~last'.ret
                /\ rate_limited_until' = now + BACKOFF_PERIOD
                /\ last_request_times' = Purged
           ELSE /\ last'.ret
                /\ last_request_times' = Append(Purged, now)
                /\ rate_limited_until' = NoTime ]_vars

\* A call found the window full, was rejected and started a backoff.
C25_Witness ==
    /\ last.op = "check_rate_limit"
    /\ ~last.ret
    /\ rate_limited_until = now + BACKOFF_PERIOD
    /\ Len(last_request_times) = MAX_REQUESTS_PER_WINDOW
    /\ now \notin Range(last_request_times)

\* ---- C26 ---------------------------------------------------------------
\* C26: after every check_rate_limit call at time t, admitted or rejected,
\* every timestamp of last_request_times lies within the 60 seconds before
\* t and the timestamps are in non-decreasing order.
C26_TimestampsInsideWindow ==
    [][ CheckStep
        => ( /\ \A i \in 1..Len(last_request_times') :
                    now - last_request_times'[i] <= RATE_LIMIT_WINDOW
             /\ \A i \in 1..(Len(last_request_times') - 1) :
                    last_request_times'[i] <= last_request_times'[i + 1] ) ]_vars

\* ---- C28 ---------------------------------------------------------------
\* C28: a check_rate_limit call made during backoff returns False and leaves
\* last_request_times and rate_limited_until as they were.
C28_RejectedCallChangesNothing ==
    [][ (CheckStep /\ InBackoff)
        => ( /\ ~last'.ret
             /\ last_request_times' = last_request_times
             /\ rate_limited_until' = rate_limited_until ) ]_vars

\* A call was rejected during a backoff that other rejected calls had left
\* at the deadline first set.
C28_Witness ==
    /\ last.op = "check_rate_limit"
    /\ ~last.ret
    /\ rate_limited_until # NoTime
    /\ now > rate_limited_until - BACKOFF_PERIOD
    /\ now < rate_limited_until

\* ---- C27 ---------------------------------------------------------------
\* The watchlists of the model whose combined entry is the one of the given
\* key.
SharersOf(key) == {w \in KeyWatchlists \cup Watchlists : WatchlistNewsKey(w) = key}

\* C27: the combined watchlist-news entry a get_watchlist_news request reads
\* or writes is the entry of exactly the watchlists that hold the same set
\* of symbols, in whatever order, and a request served from it is served
\* news of its own symbols only.
C27_KeyedBySymbolSet ==
    (last.op = "get_watchlist_news" /\ last.key # "")
        => /\ \A w \in KeyWatchlists \cup Watchlists :
                   (w \in SharersOf(last.key)) <=> (Range(w) = Range(last.symbols))
           /\ last.hit => \A i \in 1..Len(last.news) :
                              last.news[i].publisher \in Range(last.symbols)

\* ---- C29 ---------------------------------------------------------------
\* C29: a get_market_news request whose every upstream news call fails
\* writes nothing to news_cache.
C29_AllFailedWritesNothing ==
    [][ ( /\ last'.op = "get_market_news"
          /\ last'.upstream > 0
          /\ last'.failed = last'.upstream )
        => news_cache' = news_cache ]_vars

\* ---- C30 ---------------------------------------------------------------
\* C30: a create_order request that ends with an error response (404, 400
\* or 500) leaves the orders table and the holdings as they were, and no
\* order is ever left in status PENDING.
C30_OrderAllOrNothing ==
    [][ (last'.op = "create_order" /\ last'.status \in {404, 400, 500})
        => ( /\ orders' = orders
             /\ holdings' = holdings
             /\ \A i \in 1..Len(orders') : orders'[i].status # "PENDING" ) ]_vars

====
